---- MODULE Spec2Model ----
(***************************************************************************)
(* Model of djanbee's settings-file surgery (DjangoManager).  The settings *)
(* file is a sequence of one-character strings; the regular expressions of *)
(* the source are matched character by character, with Python's leftmost,  *)
(* greedy, backtracking semantics.  Positions are 1-based: the Python      *)
(* offset of position p is p - 1, and a match's `end` is the position just *)
(* after its last character.                                               *)
(***************************************************************************)
EXTENDS Integers, Sequences, FiniteSets, TLC

VARIABLES settings_text, before, call, repeated, ncalls, middleware, race, fs,
          result, selector, install, flow

vars == <<settings_text, before, call, repeated, ncalls, middleware, race, fs,
          result, selector, install, flow>>

(***************************************************************************)
(* Bounds of the model.                                                    *)
(***************************************************************************)
MaxCalls == 2
MaxLines == 2
MaxDepth == 5

(***************************************************************************)
(* Text helpers.                                                           *)
(***************************************************************************)
Max(S) == CHOOSE x \in S : \A y \in S : y <= x
Min(S) == CHOOSE x \in S : \A y \in S : x <= y

\* s[a..], the Python slice content[a-1:]
From(s, a) == SubSeq(s, a, Len(s))

RECURSIVE Concat(_)
Concat(ss) == IF ss = <<>> THEN <<>> ELSE Head(ss) \o Concat(Tail(ss))

\* sep.join(ss)
RECURSIVE JoinWith(_, _)
JoinWith(ss, sep) ==
    IF ss = <<>> THEN <<>>
    ELSE IF Len(ss) = 1 THEN ss[1]
    ELSE ss[1] \o sep \o JoinWith(Tail(ss), sep)

\* Python's \s restricted to the whitespace the documents contain
IsSpace(c) == c \in {" ", "\n"}

\* the literal lit occurs in s at position i
LitAt(s, i, lit) ==
    /\ i >= 1
    /\ i + Len(lit) - 1 <= Len(s)
    /\ \A k \in 1..Len(lit) : s[i + k - 1] = lit[k]

\* greedy \s* starting at i: the first position at or after i that is not whitespace
SkipSpace(s, i) ==
    CHOOSE j \in i..(Len(s) + 1) :
        /\ \A k \in i..(j - 1) : IsSpace(s[k])
        /\ (j = Len(s) + 1 \/ ~IsSpace(s[j]))

\* greedy run of a negated class [^excl]* starting at i: the position after the run
RunEnd(s, i, excl) ==
    CHOOSE j \in i..(Len(s) + 1) :
        /\ \A k \in i..(j - 1) : s[k] \notin excl
        /\ (j = Len(s) + 1 \/ s[j] \in excl)

NoMatch == [start |-> 0, g2 |-> 0, end |-> 0]

\* the tail  \s* sep \s* ([^excl]+)  of a pattern, tried at position p of a
\* match that starts at i.  The second \s* is greedy and gives characters back
\* until the class can take at least one character.
PatternTail(s, i, p, sep, excl) ==
    LET j1 == SkipSpace(s, p) IN
    IF j1 > Len(s) \/ s[j1] # sep THEN NoMatch
    ELSE LET j2 == j1 + 1
             k  == SkipSpace(s, j2)
             W  == {w \in j2..k : w <= Len(s) /\ s[w] \notin excl}
         IN  IF W = {} THEN NoMatch
             ELSE [start |-> i, g2 |-> Max(W), end |-> RunEnd(s, Max(W), excl)]

Quotes == {"'", "\""}

\* rf"({setting_name}\s*=\s*)([^#\n]+)" tried at position i
simple_pattern(s, setting_name, i) ==
    IF LitAt(s, i, setting_name)
    THEN PatternTail(s, i, i + Len(setting_name), "=", {"#", "\n"})
    ELSE NoMatch

\* rf"(['\"]?{setting_name}['\"]?\s*:\s*)([^,}}]+)" tried at position i
dict_pattern(s, setting_name, i) ==
    LET n == IF i <= Len(s) /\ s[i] \in Quotes /\ LitAt(s, i + 1, setting_name)
             THEN i + 1
             ELSE IF LitAt(s, i, setting_name) THEN i ELSE 0
    IN  IF n = 0 THEN NoMatch
        ELSE LET p  == n + Len(setting_name)
                 p2 == IF p <= Len(s) /\ s[p] \in Quotes THEN p + 1 ELSE p
             IN  PatternTail(s, i, p2, ":", {",", "}"})

\* rf"(#\s*{setting_name}\s*=\s*)([^#\n]+)" tried at position i
commented_pattern(s, setting_name, i) ==
    IF i <= Len(s) /\ s[i] = "#" /\ LitAt(s, SkipSpace(s, i + 1), setting_name)
    THEN PatternTail(s, i, SkipSpace(s, i + 1) + Len(setting_name), "=", {"#", "\n"})
    ELSE NoMatch

\* rf"{setting_name}\s*=\s*[^\n]+" tried at position i
replace_pattern(s, setting_name, i) ==
    IF LitAt(s, i, setting_name)
    THEN PatternTail(s, i, i + Len(setting_name), "=", {"\n"})
    ELSE NoMatch

MatchAt(kind, s, name, i) ==
    CASE kind = "simple"    -> simple_pattern(s, name, i)
      [] kind = "dict"      -> dict_pattern(s, name, i)
      [] kind = "commented" -> commented_pattern(s, name, i)
      [] kind = "replace"   -> replace_pattern(s, name, i)

\* the leftmost match at or after position pos, or NoMatch
SearchFrom(kind, s, name, pos) ==
    LET I == {i \in pos..Len(s) : MatchAt(kind, s, name, i).start # 0}
    IN  IF I = {} THEN NoMatch ELSE MatchAt(kind, s, name, Min(I))

\* re.search(pattern, content)
re_search(kind, s, name) == SearchFrom(kind, s, name, 1)

\* re.sub(pattern, repl, content) with the default count=0: every
\* non-overlapping match, left to right, is replaced by repl.  (repl holds no
\* backslash in this model, so the template expands to itself.)
RECURSIVE SubFrom(_, _, _, _, _)
SubFrom(kind, s, name, repl, pos) ==
    LET m == SearchFrom(kind, s, name, pos)
    IN  IF m.start = 0 THEN From(s, pos)
        ELSE SubSeq(s, pos, m.start - 1) \o repl \o SubFrom(kind, s, name, repl, m.end)

re_sub(kind, s, name, repl) == SubFrom(kind, s, name, repl, 1)

\* every match re.sub would replace, in order
RECURSIVE FindAllFrom(_, _, _, _)
FindAllFrom(kind, s, name, pos) ==
    LET m == SearchFrom(kind, s, name, pos)
    IN  IF m.start = 0 THEN <<>> ELSE <<m>> \o FindAllFrom(kind, s, name, m.end)

re_finditer(kind, s, name) == FindAllFrom(kind, s, name, 1)

group1(s, m) == SubSeq(s, m.start, m.g2 - 1)
group2(s, m) == SubSeq(s, m.g2, m.end - 1)

\* str.lstrip("#") followed by str.lstrip()
LstripHash(t) == From(t, RunEnd(t, 1, {c \in {t[k] : k \in 1..Len(t)} : c # "#"}))
Lstrip(t)     == From(t, SkipSpace(t, 1))

(***************************************************************************)
(* Python values and their serialisations.  A value is [type, v]: a str    *)
(* holds its characters, a list its elements, a dict its items in          *)
(* insertion order as [k, v] records with str keys.                        *)
(***************************************************************************)
Str(chars)   == [type |-> "str", v |-> chars]
PyNone       == [type |-> "none", v |-> <<>>]
PyInt(chars) == [type |-> "int", v |-> chars]
List(elems)  == [type |-> "list", v |-> elems]
Dict(items)  == [type |-> "dict", v |-> items]

RECURSIVE JoinComma(_)
JoinComma(ss) ==
    IF ss = <<>> THEN <<>>
    ELSE IF Len(ss) = 1 THEN ss[1]
    ELSE ss[1] \o <<",", " ">> \o JoinComma(Tail(ss))

\* repr() of the values of the model (their strings hold no quote or backslash)
RECURSIVE repr(_)
repr(x) ==
    CASE x.type = "str"  -> <<"'">> \o x.v \o <<"'">>
      [] x.type = "none" -> <<"N", "o", "n", "e">>
      [] x.type = "int"  -> x.v
      [] x.type = "list" ->
            <<"[">> \o JoinComma([i \in 1..Len(x.v) |-> repr(x.v[i])]) \o <<"]">>
      [] x.type = "dict" ->
            <<"{">> \o JoinComma([i \in 1..Len(x.v) |->
                        <<"'">> \o x.v[i].k \o <<"'", ":", " ">> \o repr(x.v[i].v)])
                    \o <<"}">>

\* code point order of the characters that occur in dict keys
KeyAlphabet ==
    <<"A", "B", "C", "D", "E", "F", "G", "H", "I", "J", "K", "L", "M", "N", "O", "P",
      "Q", "R", "S", "T", "U", "V", "W", "X", "Y", "Z", "_", "a", "b", "c", "d", "e",
      "f", "g", "h", "i", "j", "k", "l", "m", "n", "o", "p", "q", "r", "s", "t", "u",
      "v", "w", "x", "y", "z">>
Ord(c) == CHOOSE i \in 1..Len(KeyAlphabet) : KeyAlphabet[i] = c

\* a < b for two strings: b continues a, or at the first position where they
\* differ a holds the smaller character
StrLess(a, b) ==
    \/ Len(a) < Len(b) /\ SubSeq(b, 1, Len(a)) = a
    \/ \E k \in 1..Len(a) :
          /\ k <= Len(b)
          /\ SubSeq(a, 1, k - 1) = SubSeq(b, 1, k - 1)
          /\ Ord(a[k]) < Ord(b[k])

\* sorted(items) by key
RECURSIVE SortItems(_)
SortItems(items) ==
    IF items = <<>> THEN <<>>
    ELSE LET m == CHOOSE i \in 1..Len(items) :
                     \A j \in 1..Len(items) : ~StrLess(items[j].k, items[i].k)
             rest == [i \in 1..(Len(items) - 1) |-> IF i < m THEN items[i] ELSE items[i + 1]]
         IN  <<items[m]>> \o SortItems(rest)

RECURSIVE SortDicts(_)
SortDicts(x) ==
    CASE x.type = "dict" ->
            Dict(SortItems([i \in 1..Len(x.v) |-> [k |-> x.v[i].k, v |-> SortDicts(x.v[i].v)]]))
      [] x.type = "list" -> List([i \in 1..Len(x.v) |-> SortDicts(x.v[i])])
      [] OTHER -> x

\* the default width of pprint
Width == 80

\* pprint.pformat(x, indent=4): the one-line repr with the keys of every dict
\* sorted when it fits the width, as that of every dict of the model does; a
\* list whose repr is wider is written with one item per line, 3 blanks after
\* the bracket and 4 before each later item
pformat(x) ==
    IF x.type = "list" /\ Len(repr(x)) > Width
    THEN <<"[", " ", " ", " ">>
            \o JoinWith([i \in 1..Len(x.v) |-> repr(x.v[i])], <<",", "\n", " ", " ", " ", " ">>)
            \o <<"]">>
    ELSE repr(SortDicts(x))

(***************************************************************************)
(* The mutation operations of DjangoManager, as functions of the content   *)
(* read from the settings file.  Each returns the outcome, the message,    *)
(* whether the file was written, and the content written.                  *)
(***************************************************************************)
AddedByDjangoManager == 
        <<"\n", "\n", "#", " ", "A", "d", "d", "e", "d", " ", "b", "y", " ", "D", "j",
          "a", "n", "g", "o", " ", "M", "a", "n", "a", "g", "e", "r", "\n">>

Outcome(ok, message, written, new_content) ==
    [ok |-> ok, message |-> message, written |-> written, new_content |-> new_content]

\* Appended without the newline that ends the new declaration
Appended_without_newline(content, setting_name, value_text) ==
    content \o AddedByDjangoManager \o setting_name \o <<" ", "=", " ">> \o value_text

\* the text appended when the setting is not found
Appended(content, setting_name, value_text) ==
    content \o AddedByDjangoManager \o setting_name \o <<" ", "=", " ">> \o value_text \o <<"\n">>

\* the serialisation edit_settings gives the new value
value_str(new_value) ==
    IF new_value.type = "str" THEN <<"'">> \o new_value.v \o <<"'">>
    ELSE IF new_value.type = "none" THEN <<"N", "o", "n", "e">>
    ELSE repr(new_value)

edit_settings(content, setting_name, new_value) ==
    LET vs              == value_str(new_value)
        simple_match    == re_search("simple", content, setting_name)
        dict_match      == re_search("dict", content, setting_name)
        commented_match == re_search("commented", content, setting_name)
    IN  IF simple_match.start # 0
        THEN Outcome(TRUE, <<>>, TRUE,
                     re_sub("simple", content, setting_name,
                            group1(content, simple_match) \o vs))
        ELSE IF dict_match.start # 0
        THEN Outcome(TRUE, <<>>, TRUE,
                     re_sub("dict", content, setting_name,
                            group1(content, dict_match) \o vs))
        ELSE IF commented_match.start # 0
        THEN Outcome(TRUE, <<>>, TRUE,
                     re_sub("commented", content, setting_name,
                            Lstrip(LstripHash(group1(content, commented_match))) \o vs))
        ELSE Outcome(TRUE, <<>>, TRUE, Appended(content, setting_name, vs))

replace_settings(content, setting_name, new_value_raw) ==
    IF re_search("replace", content, setting_name).start # 0
    THEN Outcome(TRUE, setting_name \o 
        <<" ", "r", "e", "p", "l", "a", "c", "e", "d", " ", "s", "u", "c", "c", "e",
          "s", "s", "f", "u", "l", "l", "y">>, TRUE,
                 re_sub("replace", content, setting_name,
                        setting_name \o <<" ", "=", " ">> \o new_value_raw))
    ELSE Outcome(TRUE, setting_name \o 
        <<" ", "a", "d", "d", "e", "d", " ", "s", "u", "c", "c", "e", "s", "s", "f",
          "u", "l", "l", "y">>, TRUE,
                 Appended(content, setting_name, new_value_raw))

\* rf"{block_name}\s*=\s*{open}" tried at position i
block_pattern(content, block_name, open, i) ==
    /\ LitAt(content, i, block_name)
    /\ LET j1 == SkipSpace(content, i + Len(block_name))
       IN  /\ j1 <= Len(content) /\ content[j1] = "="
           /\ LET j2 == SkipSpace(content, j1 + 1)
              IN  j2 <= Len(content) /\ content[j2] = open

\* re.search(rf"{block_name}\s*=\s*{open}", content).start(): the start of the
\* leftmost match, 0 when there is none
block_start(content, block_name, open) ==
    LET I == {i \in 1..Len(content) : block_pattern(content, block_name, open, i)}
    IN  IF I = {} THEN 0 ELSE Min(I)

\* content.find(ch, start): 0 when there is none
find(content, ch, start) ==
    LET I == {i \in start..Len(content) : content[i] = ch}
    IN  IF I = {} THEN 0 ELSE Min(I)

\* count_delimiters that stops at the first closing delimiter, whatever the depth
count_delimiters_first_close(content, open, close, i, count) ==
    IF find(content, close, i) = 0 THEN 0 ELSE find(content, close, i) + 1

\* the first position at or after i that holds a delimiter of the block's
\* family, 0 when there is none: the loop does nothing on other characters
next_delimiter(content, open, close, i) ==
    IF \A k \in i..Len(content) : content[k] \notin {open, close} THEN 0
    ELSE Min({k \in i..Len(content) : content[k] \in {open, close}})

\* the delimiter-counting loop, from position i with the given count: the
\* position after the closing delimiter that brings the count back to 0, or 0
\* when the content ends first (end_pos stays -1 in the source)
RECURSIVE count_delimiters(_, _, _, _, _)
count_delimiters(content, open, close, i, count) ==
    CASE next_delimiter(content, open, close, i) = 0 -> 0
      [] next_delimiter(content, open, close, i) # 0
         /\ content[next_delimiter(content, open, close, i)] = open ->
            count_delimiters(content, open, close,
                             next_delimiter(content, open, close, i) + 1, count + 1)
      [] next_delimiter(content, open, close, i) # 0
         /\ content[next_delimiter(content, open, close, i)] = close
         /\ count - 1 = 0 ->
            next_delimiter(content, open, close, i) + 1
      [] OTHER ->
            count_delimiters(content, open, close,
                             next_delimiter(content, open, close, i) + 1, count - 1)

\* end_pos that takes the end of the content for the end of an unclosed block
end_pos_at_end_of_content(content, open, close, start_pos) ==
    IF count_delimiters(content, open, close, find(content, open, start_pos), 0) = 0
    THEN Len(content) + 1
    ELSE count_delimiters(content, open, close, find(content, open, start_pos), 0)

\* end_pos of the block that starts at start_pos
end_pos(content, open, close, start_pos) ==
    count_delimiters(content, open, close, find(content, open, start_pos), 0)

\* the part edit_database_settings and edit_middleware_settings share
edit_block(content, block_name, open, close, formatted) ==
    LET start_pos == block_start(content, block_name, open)
        first_pos == find(content, open, start_pos)
        e         == end_pos(content, open, close, start_pos)
    IN  IF start_pos = 0
        THEN Outcome(TRUE, block_name \o 
        <<" ", "s", "e", "t", "t", "i", "n", "g", " ", "a", "d", "d", "e", "d", " ",
          "s", "u", "c", "c", "e", "s", "s", "f", "u", "l", "l", "y">>, TRUE,
                     Appended(content, block_name, formatted))
        ELSE IF first_pos = 0
        THEN Outcome(FALSE, 
        <<"E", "r", "r", "o", "r", ":", " ", "M", "a", "l", "f", "o", "r", "m", "e",
          "d", " ">> \o block_name \o <<" ", "s", "e", "t", "t", "i", "n", "g">>, FALSE, content)
        ELSE IF e = 0
        THEN Outcome(FALSE, 
        <<"E", "r", "r", "o", "r", ":", " ", "C", "o", "u", "l", "d", " ", "n", "o",
          "t", " ", "f", "i", "n", "d", " ", "t", "h", "e", " ", "e", "n", "d", " ",
          "o", "f", " ">> \o block_name \o <<" ", "d", "e", "f", "i", "n", "i", "t", "i", "o", "n">>, FALSE, content)
        ELSE Outcome(TRUE, block_name \o 
        <<" ", "s", "e", "t", "t", "i", "n", "g", " ", "u", "p", "d", "a", "t", "e",
          "d", " ", "s", "u", "c", "c", "e", "s", "s", "f", "u", "l", "l", "y">>, TRUE,
                     SubSeq(content, 1, start_pos - 1)
                        \o block_name \o <<" ", "=", " ">> \o formatted
                        \o From(content, e))

DATABASES  == <<"D", "A", "T", "A", "B", "A", "S", "E", "S">>
MIDDLEWARE == <<"M", "I", "D", "D", "L", "E", "W", "A", "R", "E">>
default    == <<"d", "e", "f", "a", "u", "l", "t">>

edit_database_settings(content, new_databases) ==
    IF \A i \in 1..Len(new_databases.v) : new_databases.v[i].k # default
    THEN Outcome(FALSE, 
        <<"E", "r", "r", "o", "r", ":", " ", "T", "h", "e", " ", "'", "d", "e", "f",
          "a", "u", "l", "t", "'", " ", "d", "a", "t", "a", "b", "a", "s", "e", " ",
          "c", "o", "n", "f", "i", "g", "u", "r", "a", "t", "i", "o", "n", " ", "i",
          "s", " ", "r", "e", "q", "u", "i", "r", "e", "d">>, FALSE, content)
    ELSE edit_block(content, DATABASES, "{", "}", pformat(new_databases))

edit_middleware_settings(content, new_middleware) ==
    edit_block(content, MIDDLEWARE, "[", "]", pformat(new_middleware))

(***************************************************************************)
(* The settings files and the arguments the operations are called with.    *)
(***************************************************************************)
KEY     == <<"K", "E", "Y">>
API_KEY == <<"A", "P", "I", "_", "K", "E", "Y">>

\* lines of a settings file: KEY assigned (with a trailing comment), commented
\* out, as the suffix of another name, and as a dict entry (the files of
\* BlockDocs are the ones without KEY)
AssignmentLines == {
    <<"K", "E", "Y", " ", "=", " ", "'", "o", "'", " ", "#", " ", "c", "\n">>,
    <<"#", " ", "K", "E", "Y", " ", "=", " ", "'", "o", "'", "\n">>,
    <<"A", "P", "I", "_", "K", "E", "Y", " ", "=", " ", "'", "p", "'", "\n">>,
    <<"D", " ", "=", " ", "{", "'", "K", "E", "Y", "'", ":", " ", "'", "o", "'",
      ",", " ", "'", "Z", "'", ":", " ", "1", "}", "\n">> }

RECURSIVE LineSeqs(_)
LineSeqs(n) ==
    IF n = 0 THEN {<<>>}
    ELSE LineSeqs(n - 1) \cup
         {ls \o <<l>> : ls \in {x \in LineSeqs(n - 1) : Len(x) = n - 1}, l \in AssignmentLines}

\* files of 1..MaxLines assignment lines
AssignmentDocs == {Concat(ls) : ls \in LineSeqs(MaxLines) \ {<<>>}}

\* a dict literal nested d deep, with a sibling dict after the nested one and
\* an unmatched bracket inside a string
RECURSIVE NestedDict(_)
NestedDict(d) ==
    IF d = 1 THEN <<"{", "'", "n", "'", ":", " ", "[", "'", "]", "'", "]", "}">>
    ELSE <<"{", "'", "k", "'", ":", " ">> \o NestedDict(d - 1) \o <<",", " ", "'", "z", "'", ":", " ", "{", "}", "}">>

\* a list literal nested d deep, with a sibling list after the nested one and
\* an unmatched brace inside a string
RECURSIVE NestedList(_)
NestedList(d) ==
    IF d = 1 THEN <<"[", "'", "s", "'", ",", " ", "{", "'", "}", "'", "}", "]">>
    ELSE <<"[">> \o NestedList(d - 1) \o <<",", " ", "[", "]", "]">>

Z1 == <<"Z", " ", "=", " ", "1", "\n">>

Assign(name, literal) == name \o <<" ", "=", " ">> \o literal \o <<"\n">>

\* the literal without its last closing delimiter
Unclosed(literal) == SubSeq(literal, 1, Len(literal) - 1)

\* what may stand before the block: a declaration whose name ends in
\* the block's name, or a commented-out block
BlockPrefixes(name, literal) ==
    {
      <<"O", "L", "D", "_">> \o Assign(name, literal),
      <<"#", " ">> \o Assign(name, literal) }

BlockDocs ==
    { Assign(DATABASES, NestedDict(d)) \o Z1 : d \in 1..MaxDepth }
    \cup
    { Assign(MIDDLEWARE, NestedList(d)) \o Z1 : d \in 1..MaxDepth }
    \cup
    { Assign(DATABASES, Unclosed(NestedDict(d))) \o Z1 : d \in {1, MaxDepth} }
    \cup
    { Assign(MIDDLEWARE, Unclosed(NestedList(d))) \o Z1 : d \in {1, MaxDepth} }
    \cup
    { p \o Assign(DATABASES, NestedDict(1)) \o Z1 :
        p \in BlockPrefixes(DATABASES, <<"{", "'", "t", "'", ":", " ", "{", "}", "}">>) }
    \cup
    { p \o Assign(MIDDLEWARE, NestedList(1)) \o Z1 :
        p \in BlockPrefixes(MIDDLEWARE, <<"[", "'", "t", "'", ",", " ", "[", "]", "]">>) }

\* a file with an assignment to KEY and, in the value of another setting, a
\* dict entry for KEY
EntryDocs ==
    { <<"K", "E", "Y", " ", "=", " ", "'", "o", "'", "\n">>
        \o Assign(API_KEY, <<"{", "'", "K", "E", "Y", "'", ":", " ", "'", "p", "'", "}">>) }

Docs == AssignmentDocs \cup BlockDocs \cup EntryDocs

SettingNames == {KEY}

\* new_value of edit_settings: two strings (one with a #), None and a list
Values == { Str(<<"v">>), Str(<<"a", "#", "b">>), PyNone, List(<<Str(<<"h">>), Str(<<"g">>)>>) }

\* new_value_raw of replace_settings
RawValues == { <<"j", "(", "B", ",", " ", "'", "s", "'", ")">> }

\* new_databases of edit_database_settings: one with a plain value, one whose
\* value is a string holding a closing brace, and one without 'default'
Databases == {
    Dict(<<[k |-> <<"r">>, v |-> Dict(<<>>)],
           [k |-> default, v |-> Dict(<<[k |-> <<"N">>, v |-> Str(<<"x">>)]>>)]>>),
    Dict(<<[k |-> default, v |-> Dict(<<[k |-> <<"P">>, v |-> Str(<<"}">>)]>>)]>>),
    Dict(<<[k |-> <<"r">>, v |-> Dict(<<>>)]>>) }

\* new_middleware of edit_middleware_settings
Middlewares == { List(<<Str(<<"s">>), Str(<<"w">>)>>) }

(***************************************************************************)
(* The state machine: a settings file and a sequence of at most MaxCalls   *)
(* mutation calls on it.  `before` is the content the last call read and   *)
(* `call` the last call with its outcome; `repeated` tells that the call   *)
(* before it was the same operation with the same arguments.               *)
(***************************************************************************)
\* the project of the specifications that work on the text of one settings
\* file: the file is found and readable, and its content is settings_text
OneFile == [project |-> TRUE, manage |-> [exists |-> FALSE, module |-> <<>>],
            files |-> <<>>, readable |-> TRUE]

\* no call is in progress (the calls of Spec run one after the other)
NoRace == [proc |-> <<>>, overlapped |-> FALSE, last_writer |-> 0, original |-> <<>>]

\* no query has returned, no widget is open, no installation and no
\* configuration flow has started
NoResult == <<>>

NoSelector == <<>>

NoInstall == <<>>

NoFlow == <<>>

NoCall == [op |-> "none", name |-> <<>>, value |-> PyNone, ok |-> FALSE,
           message |-> <<>>, written |-> FALSE]

Init ==
    /\ settings_text \in Docs
    /\ before = <<>>
    /\ call = NoCall
    /\ repeated = FALSE
    /\ ncalls = 0
    /\ middleware = <<>>
    /\ race = NoRace
    /\ fs = OneFile
    /\ result = NoResult
    /\ selector = NoSelector
    /\ install = NoInstall
    /\ flow = NoFlow

\* one call: read_text, the operation, write_text when it writes
Record(op, name, value, r) ==
    /\ settings_text' = IF r.written THEN r.new_content ELSE settings_text
    /\ before' = settings_text
    /\ call' = [op |-> op, name |-> name, value |-> value, ok |-> r.ok,
                message |-> r.message, written |-> r.written]
    /\ repeated' = (call.op = op /\ call.name = name /\ call.value = value)
    /\ ncalls' = ncalls + 1
    /\ UNCHANGED <<middleware, race, fs,
                 result, selector, install, flow>>

EditSettings ==
    /\ ncalls < MaxCalls
    /\ \E name \in SettingNames, new_value \in Values :
          Record("edit_settings", name, new_value,
                 edit_settings(settings_text, name, new_value))

ReplaceSettings ==
    /\ ncalls < MaxCalls
    /\ \E name \in SettingNames, raw \in RawValues :
          Record("replace_settings", name, Str(raw),
                 replace_settings(settings_text, name, raw))

EditDatabaseSettings ==
    /\ ncalls < MaxCalls
    /\ \E new_databases \in Databases :
          Record("edit_database_settings", DATABASES, new_databases,
                 edit_database_settings(settings_text, new_databases))

EditMiddlewareSettings ==
    /\ ncalls < MaxCalls
    /\ \E new_middleware \in Middlewares :
          Record("edit_middleware_settings", MIDDLEWARE, new_middleware,
                 edit_middleware_settings(settings_text, new_middleware))

Next ==
    \/ EditSettings
    \/ ReplaceSettings
    \/ EditDatabaseSettings
    \/ EditMiddlewareSettings

Spec == Init /\ [][Next]_vars

(***************************************************************************)
(* Vocabulary of the properties.                                           *)
(***************************************************************************)
\* the lines of a text, without their newlines (str.split("\n"))
RECURSIVE SplitLines(_)
SplitLines(s) ==
    LET n == find(s, "\n", 1)
    IN  IF n = 0 THEN <<s>> ELSE <<SubSeq(s, 1, n - 1)>> \o SplitLines(From(s, n + 1))

Occurrences(s, lit) == {i \in 1..Len(s) : LitAt(s, i, lit)}

IsPrefix(p, s) == Len(p) <= Len(s) /\ SubSeq(s, 1, Len(p)) = p
IsSuffix(p, s) == Len(p) <= Len(s) /\ From(s, Len(s) - Len(p) + 1) = p

\* the line is an active assignment to name: name, spaces, =
IsAssignmentLine(line, name) ==
    /\ IsPrefix(name, line)
    /\ LET j == SkipSpace(line, Len(name) + 1) IN j <= Len(line) /\ line[j] = "="

\* the line is a commented-out assignment to name: #, spaces, name, spaces, =
IsCommentedLine(line, name) ==
    /\ line # <<>> /\ line[1] = "#"
    /\ IsAssignmentLine(From(line, SkipSpace(line, 2)), name)

\* the pattern edit_settings / replace_settings applies to the content, "none"
\* when it appends
WinningPattern(op, content, name) ==
    IF op = "replace_settings"
    THEN IF re_search("replace", content, name).start # 0 THEN "replace" ELSE "none"
    ELSE IF re_search("simple", content, name).start # 0 THEN "simple"
    ELSE IF re_search("dict", content, name).start # 0 THEN "dict"
    ELSE IF re_search("commented", content, name).start # 0 THEN "commented"
    ELSE "none"

\* the serialisation the last call wrote for its value
SerializedValue ==
    CASE call.op = "edit_settings"    -> value_str(call.value)
      [] call.op = "replace_settings" -> call.value.v
      [] OTHER                        -> pformat(call.value)

OpenOf(op)  == IF op = "edit_database_settings" THEN "{" ELSE "["
CloseOf(op) == IF op = "edit_database_settings" THEN "}" ELSE "]"

BlockOps == {"edit_database_settings", "edit_middleware_settings"}

\* the last call searched the content and no pattern matched the name
NothingMatched ==
    IF call.op \in BlockOps
    THEN block_start(before, call.name, OpenOf(call.op)) = 0
    ELSE call.op # "none" /\ WinningPattern(call.op, before, call.name) = "none"

HasDefault(new_databases) ==
    \E i \in 1..Len(new_databases.v) : new_databases.v[i].k = default

\* the number of positions of s in a..b that hold ch
CountIn(s, a, b, ch) == Cardinality({i \in a..b : s[i] = ch})

\* the positions j where the delimiters of s in o..j are balanced: as many
\* closing as opening ones
BalancedAt(s, o, open, close) ==
    {j \in o..Len(s) : CountIn(s, o, j, open) = CountIn(s, o, j, close)}

\* the last call found its block at a position other than 0
BlockCall == call.op \in BlockOps /\ (call.op = "edit_database_settings" => HasDefault(call.value))

FirstOpen == find(before, OpenOf(call.op), block_start(before, call.name, OpenOf(call.op)))

(***************************************************************************)
(* Properties of edit_settings and replace_settings.                       *)
(***************************************************************************)
LinesBefore == SplitLines(before)
LinesAfter  == SplitLines(settings_text)

\* line l of the content read is the same line of the content written
LineKept(l) == l <= Len(LinesAfter) /\ LinesAfter[l] = LinesBefore[l]

\* C1: when the only occurrence of the name in the document is a commented-out
\* assignment line `# X = old`, edit_settings(X, V) writes a document in which
\* that line is the active assignment `X = <serialized V>` with no leading #.
C1_UncommentOnMatch ==
    ( /\ call.op = "edit_settings"
      /\ Cardinality(Occurrences(before, call.name)) = 1
      /\ \E l \in 1..Len(LinesBefore) : IsCommentedLine(LinesBefore[l], call.name) )
    => \A l \in 1..Len(LinesBefore) :
          IsCommentedLine(LinesBefore[l], call.name)
          => /\ l <= Len(LinesAfter)
             /\ LinesAfter[l] = call.name \o <<" ", "=", " ">> \o value_str(call.value)

\* C2: calling edit_settings(X, V) twice in sequence leaves the file textually
\* equal to its content after the first call, for every starting document and
\* every value edit_settings can serialize.
C2_EditSettingsIdempotent ==
    (call.op = "edit_settings" /\ repeated) => settings_text = before

\* the names other than KEY that the documents declare
OtherNames == {API_KEY, <<"Z">>}

\* the line declares the name: as an assignment, commented out, or as a dict entry
Declares(line, name) ==
    \/ IsAssignmentLine(line, name)
    \/ IsCommentedLine(line, name)
    \/ re_search("dict", line, name).start # 0

\* C3: edit_settings(A, V) leaves every character of the declaration of any
\* other name B unchanged, also when A is a suffix of B, and leaves all text
\* other than A's declaration unchanged.
C3_NonInterference ==
    call.op = "edit_settings"
    => /\ \A B \in OtherNames \ {call.name} : \A l \in 1..Len(LinesBefore) :
             IsAssignmentLine(LinesBefore[l], B) => LineKept(l)
       /\ \A l \in 1..Len(LinesBefore) :
             ~Declares(LinesBefore[l], call.name) => LineKept(l)

\* C4: when the document holds more than one match of the winning pattern,
\* edit_settings and replace_settings modify only the first match: the text
\* before it and all the text after it, later matches included, is unchanged.
C4_OnlyFirstMatchModified ==
    LET kind == WinningPattern(call.op, before, call.name)
        m    == re_search(kind, before, call.name)
    IN  ( /\ call.op \in {"edit_settings", "replace_settings"}
          /\ kind # "none"
          /\ Len(re_finditer(kind, before, call.name)) >= 2 )
        => /\ IsPrefix(SubSeq(before, 1, m.start - 1), settings_text)
           /\ IsSuffix(From(before, m.end), settings_text)
           /\ Len(settings_text) >= (m.start - 1) + (Len(before) - m.end + 1)

\* C5: when the document holds both a commented-out line `# X = a` and an
\* active assignment `X = b`, edit_settings(X, V) rewrites the active
\* assignment to the new value and leaves the commented line unchanged.
C5_ActiveWinsOverCommented ==
    ( /\ call.op = "edit_settings"
      /\ \E l \in 1..Len(LinesBefore) : IsCommentedLine(LinesBefore[l], call.name)
      /\ \E l \in 1..Len(LinesBefore) : IsAssignmentLine(LinesBefore[l], call.name) )
    => \A l \in 1..Len(LinesBefore) :
          /\ IsCommentedLine(LinesBefore[l], call.name) => LineKept(l)
          /\ IsAssignmentLine(LinesBefore[l], call.name)
             => /\ l <= Len(LinesAfter)
                /\ IsPrefix(call.name \o <<" ", "=", " ">> \o value_str(call.value),
                            LinesAfter[l])

\* C6: for a name absent from the document, after edit_settings(X, V) a search
\* of the result for X matches the simple-assignment pattern and the value it
\* captures is the whole serialization of V.
C6_AppendedValueFoundWhole ==
    ( /\ call.op = "edit_settings"
      /\ Occurrences(before, call.name) = {} )
    => LET m == re_search("simple", settings_text, call.name)
       IN  /\ m.start # 0
           /\ group2(settings_text, m) = value_str(call.value)

(***************************************************************************)
(* Properties of the append branch and of the block operations.            *)
(***************************************************************************)
MarkerLine == <<"#", " ", "A", "d", "d", "e", "d", " ", "b", "y", " ", "D", "j", "a", "n", "g",
      "o", " ", "M", "a", "n", "a", "g", "e", "r">>

\* the file is the content read, then a blank line, the marker line and the
\* line `name = value`
AppendedToFile ==
    /\ call.ok /\ call.written
    /\ IsPrefix(before, settings_text)
    /\ From(settings_text, Len(before) + 1) =
          <<"\n", "\n">> \o MarkerLine \o <<"\n">>
             \o call.name \o <<" ", "=", " ">> \o SerializedValue \o <<"\n">>

\* C7 as stated: when no pattern matches the name, each mutation operation
\* reports success and writes exactly the old document followed by a blank
\* line, the marker comment line and one line `name = value`.
C7_AppendOnMissing == NothingMatched => AppendedToFile

\* C7 amended: the same, for edit_database_settings only when the mapping it
\* is given contains the key 'default'.
C7_AppendOnMissingValidated ==
    ( /\ NothingMatched
      /\ call.op = "edit_database_settings" => HasDefault(call.value) )
    => AppendedToFile

C7_Witness ==
    /\ call.op = "edit_database_settings" /\ HasDefault(call.value)
    /\ NothingMatched
    /\ settings_text # before

BlockStart == block_start(before, call.name, OpenOf(call.op))

\* the positions at which the block's delimiters are balanced
BlockBalancedAt == BalancedAt(before, FirstOpen, OpenOf(call.op), CloseOf(call.op))

\* C8: for a balanced block nested to any depth, the delimiter scan ends at
\* the index immediately after the closing delimiter that matches the first
\* opening delimiter: not at an inner closing delimiter, not past the
\* outermost one, whatever delimiters of the other family the block holds;
\* the text from that index on is what the operation keeps after the block.
C8_ScanEndsAfterMatchingClose ==
    ( /\ BlockCall /\ BlockStart # 0 /\ BlockBalancedAt # {} )
    => LET j == Min(BlockBalancedAt)
       IN  /\ end_pos(before, OpenOf(call.op), CloseOf(call.op), BlockStart) = j + 1
           /\ before[j] = CloseOf(call.op)
           /\ call.written
           /\ settings_text =
                 SubSeq(before, 1, BlockStart - 1)
                    \o call.name \o <<" ", "=", " ">> \o pformat(call.value)
                    \o From(before, j + 1)

C8_Witness ==
    /\ call.op = "edit_database_settings" /\ call.written
    /\ before = Assign(DATABASES, NestedDict(5)) \o Z1
    /\ settings_text = Assign(DATABASES, pformat(call.value)) \o Z1

\* C9: when the block is opened but the document ends before the delimiter
\* depth returns to zero, the operation returns (False, message), the message
\* names the declaration, and the file is left as it was: nothing is written.
C9_UnclosedBlockAborts ==
    ( /\ BlockCall /\ BlockStart # 0 /\ BlockBalancedAt = {} )
    => /\ ~call.ok
       /\ Occurrences(call.message, call.name) # {}
       /\ ~call.written
       /\ settings_text = before

C9_Witness ==
    /\ call.op = "edit_middleware_settings" /\ ~call.ok
    /\ before = Assign(MIDDLEWARE, Unclosed(NestedList(MaxDepth))) \o Z1
    /\ settings_text = before

\* the start of the first declaration of the block at the start of a line
TopLevelStart ==
    LET I == {i \in 1..Len(before) :
                /\ i = 1 \/ before[i - 1] = "\n"
                /\ block_pattern(before, call.name, OpenOf(call.op), i)}
    IN  IF I = {} THEN 0 ELSE Min(I)

\* C10: edit_database_settings (edit_middleware_settings) replaces only the
\* top-level declaration: the result is the text before that declaration,
\* then `NAME = <formatted value>`, then the text after its matching closing
\* delimiter; a declaration whose name merely ends in NAME and a commented-out
\* block placed before the active one stay as they were.
C10_OnlyTopLevelBlockReplaced ==
    LET open   == OpenOf(call.op)
        close  == CloseOf(call.op)
        closed == BalancedAt(before, find(before, open, TopLevelStart), open, close)
    IN  ( /\ BlockCall /\ TopLevelStart # 0 /\ closed # {} )
        => settings_text =
              SubSeq(before, 1, TopLevelStart - 1)
                 \o call.name \o <<" ", "=", " ">> \o pformat(call.value)
                 \o From(before, Min(closed) + 1)

(***************************************************************************)
(* The Whitenoise middleware set-up of StaticRootHandler, on the value of  *)
(* MIDDLEWARE as a list of names (`middleware`).                           *)
(***************************************************************************)
MaxMiddleware == 4

security_middleware == "django.middleware.security.SecurityMiddleware"
whitenoise_middleware == "whitenoise.middleware.WhiteNoiseMiddleware"
session_middleware == "django.contrib.sessions.middleware.SessionMiddleware"

\* Python's `x in l`, l.index(x) (0-based), l.insert(i, x) and l.remove(x)
In(x, l) == \E i \in 1..Len(l) : l[i] = x
index(l, x) == Min({i \in 1..Len(l) : l[i] = x}) - 1
insert(l, i, x) == SubSeq(l, 1, Min({i, Len(l)})) \o <<x>> \o From(l, Min({i, Len(l)}) + 1)
remove(l, x) == SubSeq(l, 1, index(l, x)) \o From(l, index(l, x) + 2)

is_whitenoise_properly_configured(middleware_list) ==
    IF middleware_list = <<>> THEN FALSE
    ELSE IF ~In(security_middleware, middleware_list)
            \/ ~In(whitenoise_middleware, middleware_list) THEN FALSE
    ELSE index(middleware_list, whitenoise_middleware)
            = index(middleware_list, security_middleware) + 1

\* the list returned for an empty MIDDLEWARE
BasicMiddlewares ==
    << security_middleware, whitenoise_middleware, session_middleware,
       "django.middleware.common.CommonMiddleware",
       "django.middleware.csrf.CsrfViewMiddleware",
       "django.contrib.auth.middleware.AuthenticationMiddleware",
       "django.contrib.messages.middleware.MessageMiddleware",
       "django.middleware.clickjacking.XFrameOptionsMiddleware" >>

setup_whitenoise_middleware(middleware_list) ==
    IF middleware_list = <<>> THEN BasicMiddlewares
    ELSE LET removed == IF In(whitenoise_middleware, middleware_list)
                        THEN remove(middleware_list, whitenoise_middleware)
                        ELSE middleware_list
         IN  IF In(security_middleware, removed)
             THEN insert(removed, index(removed, security_middleware) + 1,
                         whitenoise_middleware)
             ELSE insert(insert(removed, 0, whitenoise_middleware), 0,
                         security_middleware)

\* the values MIDDLEWARE can have in the settings module
MiddlewareNames == {security_middleware, whitenoise_middleware, session_middleware}
MiddlewareLists == UNION {[1..n -> MiddlewareNames] : n \in 0..MaxMiddleware}

WhitenoiseInit ==
    /\ settings_text = <<>>
    /\ before = <<>>
    /\ call = NoCall
    /\ repeated = FALSE
    /\ ncalls = 0
    /\ middleware \in MiddlewareLists
    /\ race = NoRace
    /\ fs = OneFile
    /\ result = NoResult
    /\ selector = NoSelector
    /\ install = NoInstall
    /\ flow = NoFlow

\* middleware = self.setup_whitenoise_middleware(middleware)
SetupWhitenoiseMiddleware ==
    /\ ncalls < MaxCalls
    /\ middleware' = setup_whitenoise_middleware(middleware)
    /\ call' = [NoCall EXCEPT !.op = "setup_whitenoise_middleware"]
    /\ repeated' = (call.op = "setup_whitenoise_middleware")
    /\ ncalls' = ncalls + 1
    /\ UNCHANGED <<settings_text, before, race, fs,
                 result, selector, install, flow>>

WhitenoiseNext == SetupWhitenoiseMiddleware

WhitenoiseSpec == WhitenoiseInit /\ [][WhitenoiseNext]_vars

\* C12: for any middleware list (empty, lacking SecurityMiddleware, or holding
\* WhiteNoiseMiddleware at any position any number of times) the list returned
\* by setup_whitenoise_middleware has WhiteNoiseMiddleware immediately after
\* SecurityMiddleware: is_whitenoise_properly_configured is True on it.
C12_WhitenoiseAfterSecurity ==
    call.op = "setup_whitenoise_middleware"
        => is_whitenoise_properly_configured(middleware)

(***************************************************************************)
(* STATICFILES_DIRS in the Whitenoise flow of StaticRootHandler: the list  *)
(* is rewritten with replace_settings.                                     *)
(***************************************************************************)
MaxEntries == 2

STATICFILES_DIRS == <<"S", "T", "A", "T", "I", "C", "F", "I", "L", "E", "S", "_", "D", "I", "R", "S">>

\* target_expr = "os.path.join(BASE_DIR, 'static')"
target_expr ==
    <<"o", "s", ".", "p", "a", "t", "h", ".", "j", "o", "i", "n", "(", "B", "A", "S", "E", "_", "D", "I", "R", ",", " ", "'", "s", "t", "a", "t", "i", "c", "'", ")">>

IndentSep == <<",", "\n", " ", " ", " ", " ">>

\* formatted_list = "[\n    " + ",\n    ".join(staticfiles_dirs) + "\n]"
formatted_list(staticfiles_dirs) ==
    <<"[", "\n", " ", " ", " ", " ">> \o JoinWith(staticfiles_dirs, IndentSep) \o <<"\n", "]">>

\* the expressions a STATICFILES_DIRS list of the documents holds
StaticEntries == { <<"'", "a", "'">>, <<"B", " ", "/", " ", "'", "b", "'">> }
EntryLists == UNION {[1..n -> StaticEntries] : n \in 0..MaxEntries}

\* the three ways a list literal is laid out: on one line, with the entries
\* after the first on lines of their own, and one entry per line between the
\* brackets
OneLine(es) == <<"[">> \o JoinWith(es, <<",", " ">>) \o <<"]">>
Hanging(es) == <<"[">> \o JoinWith(es, IndentSep) \o <<"]">>
Vertical(es) ==
    IF es = <<>> THEN <<"[", "\n", "]">>
    ELSE <<"[", "\n", " ", " ", " ", " ">> \o JoinWith(es, IndentSep) \o <<",", "\n", "]">>

ImportOs == <<"i", "m", "p", "o", "r", "t", " ", "o", "s", "\n">>

StaticDocs ==
    { pre \o Assign(STATICFILES_DIRS, lit) \o post :
        pre \in {<<>>, ImportOs}, post \in {<<>>, Z1},
        lit \in UNION {{OneLine(es), Hanging(es), Vertical(es)} : es \in EntryLists} }

\* the values the flow passes to replace_settings: the one-line list when it
\* found no entry, the formatted list when it added target_expr to the entries
NewStaticfilesDirs ==
    { OneLine(<<target_expr>>),
      formatted_list(<<<<"B", " ", "/", " ", "'", "b", "'">>, target_expr>>) }

StaticfilesInit ==
    /\ settings_text \in StaticDocs
    /\ before = <<>>
    /\ call = NoCall
    /\ repeated = FALSE
    /\ ncalls = 0
    /\ middleware = <<>>
    /\ race = NoRace
    /\ fs = OneFile
    /\ result = NoResult
    /\ selector = NoSelector
    /\ install = NoInstall
    /\ flow = NoFlow

\* self.settings_service.replace_settings("STATICFILES_DIRS", formatted_list)
ReplaceStaticfilesDirs ==
    /\ ncalls < MaxCalls
    /\ \E raw \in NewStaticfilesDirs :
          Record("replace_settings", STATICFILES_DIRS, Str(raw),
                 replace_settings(settings_text, STATICFILES_DIRS, raw))

StaticfilesNext == ReplaceStaticfilesDirs

StaticfilesSpec == StaticfilesInit /\ [][StaticfilesNext]_vars

\* the closing bracket that matches the first [ of the STATICFILES_DIRS
\* declaration of `before`, 0 when there is none
StaticClose ==
    LET start == block_start(before, STATICFILES_DIRS, "[")
        closed == IF start = 0 THEN {}
                  ELSE BalancedAt(before, find(before, "[", start), "[", "]")
    IN  IF closed = {} THEN 0 ELSE Min(closed)

\* the STATICFILES_DIRS list of `before` spans several lines
SpansLines ==
    /\ StaticClose # 0
    /\ \E i \in block_start(before, STATICFILES_DIRS, "[")..StaticClose : before[i] = "\n"

\* C13: when STATICFILES_DIRS exists as a list literal that spans several
\* lines, replace_settings('STATICFILES_DIRS', new_list) replaces the whole
\* literal, from the declaration through its matching closing bracket: the
\* result is the text before the declaration, the new declaration and the text
\* after the old closing bracket, so nothing of the old list remains.
C13_WholeListReplaced ==
    (call.op = "replace_settings" /\ call.name = STATICFILES_DIRS /\ SpansLines)
        => settings_text =
              SubSeq(before, 1, block_start(before, STATICFILES_DIRS, "[") - 1)
                 \o STATICFILES_DIRS \o <<" ", "=", " ">> \o call.value.v
                 \o From(before, StaticClose + 1)

(***************************************************************************)
(* Two mutation calls on the same file whose steps interleave: each call   *)
(* reads the file (read_text), computes its new content and writes it      *)
(* (write_text); nothing locks the file between the two steps.             *)
(***************************************************************************)
Procs == {1, 2}

\* the two calls: the first edits KEY; the second edits another declaration
RacePairs ==
    { << [op |-> "edit_settings", name |-> KEY, value |-> Str(<<"v">>)],
         [op |-> "edit_settings", name |-> API_KEY, value |-> Str(<<"w">>)] >>,
      << [op |-> "edit_settings", name |-> KEY, value |-> Str(<<"v">>)],
         [op |-> "replace_settings", name |-> <<"Z">>, value |-> Str(<<"2">>)] >> }

\* files of up to MaxLines assignment lines followed by `Z = 1`
RaceDocs == {Concat(ls) \o Z1 : ls \in LineSeqs(MaxLines)}

\* what a call computes from the content it read
Mutation(c, content) ==
    IF c.op = "edit_settings" THEN edit_settings(content, c.name, c.value)
    ELSE replace_settings(content, c.name, c.value.v)

RaceInit ==
    /\ settings_text \in RaceDocs
    /\ before = <<>>
    /\ call = NoCall
    /\ repeated = FALSE
    /\ ncalls = 0
    /\ middleware = <<>>
    /\ \E pair \in RacePairs :
          race = [proc |-> [p \in Procs |->
                              [pc |-> "start", call |-> pair[p], content |-> <<>>,
                               ok |-> FALSE]],
                  overlapped |-> FALSE, last_writer |-> 0, original |-> settings_text]
    /\ fs = OneFile
    /\ result = NoResult
    /\ selector = NoSelector
    /\ install = NoInstall
    /\ flow = NoFlow

\* content = settings_path.read_text()
RaceRead(p) ==
    /\ race.proc[p].pc = "start"
    /\ race' = [race EXCEPT !.proc[p].pc = "read",
                            !.proc[p].content = settings_text,
                            !.overlapped = \E q \in Procs \ {p} : race.proc[q].pc = "read"]
    /\ UNCHANGED <<settings_text, before, call, repeated, ncalls, middleware, fs,
                 result, selector, install, flow>>

\* settings_path.write_text(new_content); return
RaceWrite(p) ==
    /\ race.proc[p].pc = "read"
    /\ LET r == Mutation(race.proc[p].call, race.proc[p].content)
       IN  /\ settings_text' = IF r.written THEN r.new_content ELSE settings_text
           /\ race' = [race EXCEPT !.proc[p].pc = "done", !.proc[p].ok = r.ok,
                                   !.last_writer = p]
    /\ UNCHANGED <<before, call, repeated, ncalls, middleware, fs,
                 result, selector, install, flow>>

RaceNext == \E p \in Procs : RaceRead(p) \/ RaceWrite(p)

RaceSpec == RaceInit /\ [][RaceNext]_vars

BothDone == \A p \in Procs : race.proc[p].pc = "done"

\* the text `name = value` a call writes for its declaration
EditText(c) ==
    c.name \o <<" ", "=", " ">>
       \o (IF c.op = "edit_settings" THEN value_str(c.value) ELSE c.value.v)

\* the edit of call p is in the file
EditPresent(p) == Occurrences(settings_text, EditText(race.proc[p].call)) # {}

\* the file holds the edit of the last writer alone: it is what that call
\* makes of the original file
OnlyLastEdit ==
    settings_text = Mutation(race.proc[race.last_writer].call, race.original).new_content

\* C14, first half: both calls read before either wrote; the file holds only
\* the edit of the call that wrote last and no call reported an error
C14_RacedEditLost ==
    (BothDone /\ race.overlapped)
        => (OnlyLastEdit /\ \A p \in Procs : race.proc[p].ok)

\* C14: two mutation calls on different declarations of one file are not
\* atomic.  If both read before either writes, the final file holds only the
\* edit of the call that wrote last, and no error is reported; if the calls
\* are serialized, both edits are present.
C14_LostUpdateOnlyWhenRaced ==
    /\ C14_RacedEditLost
    /\ (BothDone /\ ~race.overlapped) => \A p \in Procs : EditPresent(p)

(***************************************************************************)
(* Imports of the settings module: is_library_imported and                 *)
(* add_library_import, as functions of the content of the file.            *)
(***************************************************************************)
Import == <<"i", "m", "p", "o", "r", "t">>
FromKw == <<"f", "r", "o", "m">>

\* rf"import\s+{library_name}" (and rf"import\s+{library_name}\s+as", which
\* matches only where this one does) matches at position i
ImportPlainAt(s, library_name, i) ==
    /\ LitAt(s, i, Import)
    /\ SkipSpace(s, i + 6) > i + 6
    /\ LitAt(s, SkipSpace(s, i + 6), library_name)

\* rf"from\s+{library_name}\s+import" matches at position i
ImportFromAt(s, library_name, i) ==
    /\ LitAt(s, i, FromKw)
    /\ SkipSpace(s, i + 4) > i + 4
    /\ LitAt(s, SkipSpace(s, i + 4), library_name)
    /\ LET j == SkipSpace(s, i + 4) + Len(library_name)
       IN  SkipSpace(s, j) > j /\ LitAt(s, SkipSpace(s, j), Import)

\* rf"import\s+.*,\s*{library_name}" matches at position i: `.*` takes the
\* characters a..c-1 of one line, a comma stands at c
ImportListAt(s, library_name, i) ==
    /\ LitAt(s, i, Import)
    /\ \E a \in (i + 7)..SkipSpace(s, i + 6) :
          \E c \in a..Len(s) :
             /\ \A k \in a..(c - 1) : s[k] # "\n"
             /\ s[c] = ","
             /\ LitAt(s, SkipSpace(s, c + 1), library_name)

\* is_library_imported on the content of the file
is_library_imported(content, library_name) ==
    \E i \in 1..Len(content) :
        \/ ImportPlainAt(content, library_name, i)
        \/ ImportFromAt(content, library_name, i)
        \/ ImportListAt(content, library_name, i)

\* line.strip()
Strip(line) ==
    LET I == {i \in 1..Len(line) : ~IsSpace(line[i])}
    IN  IF I = {} THEN <<>> ELSE SubSeq(line, Min(I), Max(I))

\* the test of the loop over the lines: the stripped line is not empty and
\* starts with none of "#", "import", "from"
EndsImportSection(line) ==
    /\ Strip(line) # <<>>
    /\ ~IsPrefix(<<"#">>, Strip(line))
    /\ ~IsPrefix(Import, Strip(line))
    /\ ~IsPrefix(FromKw, Strip(line))

\* import_section_end: the 0-based index of the first such line, 0 when there
\* is none
import_section_end(lines) ==
    LET I == {i \in 1..Len(lines) : EndsImportSection(lines[i])}
    IN  IF I = {} THEN 0 ELSE Min(I) - 1

\* the arguments of add_library_import; <<>> stands for None
ImportArgs(library_name, import_from, import_as, import_what) ==
    [library_name |-> library_name, import_from |-> import_from,
     import_as |-> import_as, import_what |-> import_what]

\* ", ".join(import_what) for a list, import_what itself for a string
import_what_str(import_what) ==
    IF import_what.type = "list"
    THEN JoinWith([k \in 1..Len(import_what.v) |-> import_what.v[k].v], <<",", " ">>)
    ELSE import_what.v

import_statement(a) ==
    IF a.import_from # <<>>
    THEN FromKw \o <<" ">> \o a.import_from \o <<" ">> \o Import \o <<" ">>
            \o import_what_str(a.import_what)
    ELSE Import \o <<" ">> \o a.library_name
            \o (IF a.import_as # <<>> THEN <<" ", "a", "s", " ">> \o a.import_as ELSE <<>>)

IsAlreadyImported == <<" ", "i", "s", " ", "a", "l", "r", "e", "a", "d", "y", " ", "i", "m", "p", "o", "r", "t", "e", "d">>
AddedImportFor == <<"A", "d", "d", "e", "d", " ", "i", "m", "p", "o", "r", "t", " ", "f", "o", "r", " ">>
ImportWhatRequired ==
    <<"i", "m", "p", "o", "r", "t", "_", "w", "h", "a", "t", " ", "m", "u", "s", "t", " ", "b", "e", " ", "p", "r", "o", "v", "i", "d", "e", "d", " ", "w", "h", "e", "n", " ", "u", "s", "i", "n", "g", " ", "i", "m", "p", "o", "r", "t", "_", "f", "r", "o", "m">>

\* Python truth of import_what: None, "" and [] are false
Truthy(x) == x.type # "none" /\ x.v # <<>>

\* add_library_import on the content of the file
add_library_import(content, a) ==
    IF is_library_imported(content, a.library_name)
    THEN Outcome(TRUE, a.library_name \o IsAlreadyImported, FALSE, content)
    ELSE IF a.import_from # <<>> /\ ~Truthy(a.import_what)
    THEN Outcome(FALSE, ImportWhatRequired, FALSE, content)
    ELSE LET lines == SplitLines(content)
             end   == import_section_end(lines)
         IN  Outcome(TRUE, AddedImportFor \o a.library_name, TRUE,
                     JoinWith(SubSeq(lines, 1, end) \o <<import_statement(a)>>
                                 \o From(lines, end + 1), <<"\n">>))

(***************************************************************************)
(* The project on disk and the two locators of the settings file.  A path  *)
(* is the sequence of its components under the project root, the suffix    *)
(* ".py" of a file name being the last one: <<"config", "settings", ".py">>*)
(* is config/settings.py.  fs.files maps the regular files of the project  *)
(* to their content; fs.manage is manage.py, with the module that follows  *)
(* DJANGO_SETTINGS_MODULE in it (<<>> when the pattern finds none);        *)
(* fs.readable tells that read_text of a settings file succeeds.           *)
(***************************************************************************)
MaxFiles == 2
MaxFileCalls == 1

None == <<>>

\* self.current_project_path.name
ProjectName == "mysite"

\* possible_locations of DjangoManager.find_settings_file, in the order of the list
possible_locations ==
    << <<ProjectName, "settings", ".py">>,
       <<"settings", ".py">>,
       <<"config", "settings", ".py">>,
       <<ProjectName, "settings", "base", ".py">>,
       <<"settings", "base", ".py">>,
       <<"config", "settings", "base", ".py">> >>

\* 'a.b.c' -> a/b/c.py
module_file_path(parts) == parts \o <<".py">>

\* location.exists() and location.is_file()
IsFile(f, path) == path \in DOMAIN f.files

\* rglob("settings.py") / glob("**/settings.py"): the files of that name
\* anywhere under the root
IsSettingsPy(path) ==
    Len(path) >= 2 /\ SubSeq(path, Len(path) - 1, Len(path)) = <<"settings", ".py">>

\* a search that takes any file of the project
rglob_any_name(f) == DOMAIN f.files

rglob(f) == {path \in DOMAIN f.files : IsSettingsPy(path)}

\* DjangoManager.find_settings_file: the set of paths it can return (None
\* alone when it returns None).  The order in which rglob yields its matches
\* is the order of the directory listing, so any match can be the first.
find_settings_file(f) ==
    IF ~f.project THEN {None}
    ELSE LET locations ==
                 (IF f.manage.exists /\ f.manage.module # <<>>
                  THEN <<module_file_path(f.manage.module)>> ELSE <<>>)
                    \o possible_locations
             E == {i \in 1..Len(locations) : IsFile(f, locations[i])}
         IN  IF E # {} THEN {locations[Min(E)]}
             ELSE IF rglob(f) # {} THEN rglob(f)
             ELSE {None}

\* the markers ConfigureDatabaseManager.find_settings_file looks for
DJANGO_SETTINGS_MODULE ==
    <<"D", "J", "A", "N", "G", "O", "_", "S", "E", "T", "T", "I", "N", "G", "S", "_", "M", "O", "D", "U", "L", "E">>
SECRET_KEY == <<"S", "E", "C", "R", "E", "T", "_", "K", "E", "Y">>
INSTALLED_APPS == <<"I", "N", "S", "T", "A", "L", "L", "E", "D", "_", "A", "P", "P", "S">>
Markers == {DJANGO_SETTINGS_MODULE, SECRET_KEY, INSTALLED_APPS}
HasMarker(content) == \E marker \in Markers : Occurrences(content, marker) # {}

\* project_path.iterdir(): the directories directly under the root
inner_dirs(f) == {path[1] : path \in {q \in DOMAIN f.files : Len(q) > 2}}

\* settings_patterns of ConfigureDatabaseManager.find_settings_file, as the
\* sequence of the sets of paths that stand at the same rank (the settings.py
\* of the inner directories come in the order of the directory listing)
settings_patterns(f) ==
    << {<<"settings", ".py">>},
       {<<inner_dir, "settings", ".py">> : inner_dir \in inner_dirs(f)},
       {<<"config", "settings", ".py">>},
       {<<"settings", "__init__", ".py">>},
       {<<ProjectName, "settings", ".py">>} >>

\* ConfigureDatabaseManager.find_settings_file: the set of paths it can return
configure_find_settings_file(f) ==
    LET E == {i \in 1..5 : \E path \in settings_patterns(f)[i] : IsFile(f, path)}
        marked == {path \in rglob(f) : HasMarker(f.files[path])}
    IN  IF E # {} THEN {path \in settings_patterns(f)[Min(E)] : IsFile(f, path)}
        ELSE IF f.readable /\ marked # {} THEN marked
        ELSE {None}

\* the mutation operations on the project: what a call is and what comes of it
FileCall(op, name, value) == [op |-> op, name |-> name, value |-> value]

TextOp(c, content) ==
    CASE c.op = "edit_settings" -> edit_settings(content, c.name, c.value)
      [] c.op = "replace_settings" -> replace_settings(content, c.name, c.value.v)
      [] c.op = "edit_database_settings" -> edit_database_settings(content, c.value)
      [] c.op = "edit_middleware_settings" -> edit_middleware_settings(content, c.value)
      [] c.op = "add_library_import" -> add_library_import(content, c.value)

\* the operations that read the file inside a try block
ReadsInTry == {"replace_settings", "add_library_import"}

\* the failure an operation returns when find_settings_file gives no file
NotFound(c) ==
    CASE c.op = "edit_settings" -> <<>>
      [] c.op = "replace_settings" -> "Error: Settings file not found at None"
      [] c.op = "add_library_import" -> "Settings file not found"
      [] OTHER -> "Error: Settings file not found"

\* the failure an operation of ReadsInTry returns when read_text raises
ReadFailed(c) ==
    IF c.op = "replace_settings" THEN "Error replacing setting"
    ELSE "Error adding library import"

Returned(c, path, ok, message, written) ==
    [op |-> c.op, name |-> c.name, value |-> c.value, found |-> path,
     raised |-> FALSE, ok |-> ok, message |-> message, written |-> written,
     files_before |-> fs.files]

Raised(c, path) ==
    [op |-> c.op, name |-> c.name, value |-> c.value, found |-> path,
     raised |-> TRUE, ok |-> FALSE, message |-> <<>>, written |-> FALSE,
     files_before |-> fs.files]

\* one call of a mutation operation of DjangoManager on the project
FileMutation(c) ==
    /\ ncalls < MaxFileCalls
    /\ ncalls' = ncalls + 1
    /\ \E path \in find_settings_file(fs) :
          IF c.op = "edit_database_settings" /\ ~HasDefault(c.value)
          THEN /\ call' = Returned(c, None, FALSE, TextOp(c, <<>>).message, FALSE)
               /\ UNCHANGED fs
          ELSE IF path = None
          THEN /\ call' = Returned(c, path, FALSE, NotFound(c), FALSE)
               /\ UNCHANGED fs
          ELSE IF ~fs.readable
          THEN /\ call' = IF c.op \in ReadsInTry
                          THEN Returned(c, path, FALSE, ReadFailed(c), FALSE)
                          ELSE Raised(c, path)
               /\ UNCHANGED fs
          ELSE LET r == TextOp(c, fs.files[path])
               IN  /\ call' = Returned(c, path, r.ok, r.message, r.written)
                   /\ fs' = IF r.written
                            THEN [fs EXCEPT !.files[path] = r.new_content]
                            ELSE fs
    /\ UNCHANGED <<settings_text, before, repeated, middleware, race,
                 result, selector, install, flow>>

ImportOsArgs == ImportArgs(<<"o", "s">>, <<>>, <<>>, PyNone)

FileEditSettings ==
    FileMutation(FileCall("edit_settings", KEY, Str(<<"v">>)))

FileReplaceSettings ==
    FileMutation(FileCall("replace_settings", KEY, Str(<<"1">>)))

FileEditDatabaseSettings ==
    \E new_databases \in Databases :
        FileMutation(FileCall("edit_database_settings", DATABASES, new_databases))

FileEditMiddlewareSettings ==
    \E new_middleware \in Middlewares :
        FileMutation(FileCall("edit_middleware_settings", MIDDLEWARE, new_middleware))

FileAddLibraryImport ==
    FileMutation(FileCall("add_library_import", <<"o", "s">>, ImportOsArgs))

\* the two locators, called on their own
Locate(op, results) ==
    /\ ncalls < MaxFileCalls
    /\ ncalls' = ncalls + 1
    /\ \E path \in results :
          call' = Returned(FileCall(op, <<>>, PyNone), path, path # None, <<>>, FALSE)
    /\ UNCHANGED <<settings_text, before, repeated, middleware, race, fs,
                 result, selector, install, flow>>

FindSettingsFile == Locate("find_settings_file", find_settings_file(fs))

ConfigureFindSettingsFile ==
    /\ fs.project
    /\ Locate("configure_find_settings_file", configure_find_settings_file(fs))

\* the projects: up to MaxFiles files out of the conventional locations, the
\* file manage.py points at, and two settings.py that only a search finds;
\* these two hold a marker or none
MarkedDoc == SECRET_KEY \o <<" ", "=", " ", "'", "o", "'", "\n">>

ConventionalPaths ==
    { <<ProjectName, "settings", ".py">>, <<"settings", ".py">>,
      <<"config", "settings", ".py">>, <<"settings", "base", ".py">>,
      <<"conf", "prod", ".py">> }
SearchedPaths == { <<"app", "settings", ".py">>, <<"app", "deep", "settings", ".py">> }

ContentsAt(path) == IF path \in SearchedPaths THEN {MarkedDoc, Z1} ELSE {MarkedDoc}

FileSets ==
    {P \in SUBSET (ConventionalPaths \cup SearchedPaths) : Cardinality(P) <= MaxFiles}

Projects ==
    UNION {[P -> {MarkedDoc, Z1}] : P \in FileSets}

ManagePy ==
    { [exists |-> FALSE, module |-> <<>>],
      [exists |-> TRUE, module |-> <<>>],
      [exists |-> TRUE, module |-> <<"conf", "prod">>] }

FileSystems ==
    { [project |-> project, manage |-> manage, files |-> files, readable |-> readable] :
        project \in BOOLEAN, manage \in ManagePy, readable \in BOOLEAN,
        files \in {f \in Projects : \A path \in DOMAIN f : f[path] \in ContentsAt(path)} }

FilesInit ==
    /\ settings_text = <<>>
    /\ before = <<>>
    /\ call = NoCall
    /\ repeated = FALSE
    /\ ncalls = 0
    /\ middleware = <<>>
    /\ race = NoRace
    /\ fs \in {f \in FileSystems :
                 /\ ~f.project => (~f.manage.exists /\ f.readable /\ Cardinality(DOMAIN f.files) <= 1)
                 /\ ~f.readable => DOMAIN f.files # {}}
    /\ result = NoResult
    /\ selector = NoSelector
    /\ install = NoInstall
    /\ flow = NoFlow

FilesNext ==
    \/ FindSettingsFile
    \/ ConfigureFindSettingsFile
    \/ FileEditSettings
    \/ FileReplaceSettings
    \/ FileEditDatabaseSettings
    \/ FileEditMiddlewareSettings
    \/ FileAddLibraryImport

FilesSpec == FilesInit /\ [][FilesNext]_vars

MutationOps == {"edit_settings", "replace_settings", "edit_database_settings",
                "edit_middleware_settings", "add_library_import"}

\* the paths DjangoManager.find_settings_file probes in the project, the one
\* manage.py points at included
ProbedPaths ==
    {possible_locations[i] : i \in 1..Len(possible_locations)}
       \cup (IF fs.manage.exists /\ fs.manage.module # <<>>
             THEN {module_file_path(fs.manage.module)} ELSE {})

\* no project path is set, or no candidate settings file exists under the root
NoSettingsFile ==
    \/ ~fs.project
    \/ \A path \in DOMAIN call.files_before : path \notin ProbedPaths /\ ~IsSettingsPy(path)

ReadError ==
    /\ call.op \in MutationOps
    /\ call.found # None
    /\ ~fs.readable

\* C16: when the settings file exists but reading it fails with an I/O error,
\* each mutation operation returns a failure outcome with a message instead of
\* raising, and writes nothing.
C16_ReadErrorReturnsFailure ==
    ReadError => ( /\ ~call.raised /\ ~call.ok /\ call.message # <<>>
                   /\ ~call.written /\ fs.files = call.files_before )

Locators == {"find_settings_file", "configure_find_settings_file"}

\* the conventional locations of the locator that was called
ConventionalOf(op) ==
    IF op = "find_settings_file" THEN ProbedPaths
    ELSE UNION {settings_patterns(fs)[i] : i \in 1..5}

\* C17: when none of the conventional locations exists and the locator falls
\* back to the recursive search for settings.py, the file it returns holds at
\* least one marker identifier; a settings.py without marker is never returned.
C17_FallbackNeedsMarker ==
    ( /\ call.op \in Locators
      /\ \A path \in ConventionalOf(call.op) : ~IsFile(fs, path)
      /\ call.found # None )
        => HasMarker(fs.files[call.found])

\* the order of the candidates as the specification lists it: root/settings.py,
\* root/<root-name>/settings.py, root/config/settings.py, the settings-package
\* variants, then the path derived from manage.py
ListedOrder ==
    << <<"settings", ".py">>,
       <<ProjectName, "settings", ".py">>,
       <<"config", "settings", ".py">>,
       <<"settings", "__init__", ".py">>,
       <<ProjectName, "settings", "base", ".py">>,
       <<"settings", "base", ".py">>,
       <<"config", "settings", "base", ".py">> >>
       \o (IF fs.manage.exists /\ fs.manage.module # <<>>
           THEN <<module_file_path(fs.manage.module)>> ELSE <<>>)

FirstListed ==
    LET E == {i \in 1..Len(ListedOrder) : IsFile(fs, ListedOrder[i])}
    IN  IF E = {} THEN None ELSE ListedOrder[Min(E)]

\* C18: find_settings_file returns the first candidate that exists as a
\* regular file, in the listed order; when several candidates exist, the
\* earlier one in this order is returned.
C18_FirstListedCandidateWins ==
    (call.op = "find_settings_file" /\ fs.project /\ FirstListed # None)
        => call.found = FirstListed

(***************************************************************************)
(* add_library_import called on settings files that begin with comments,   *)
(* an import block and an assignment.                                      *)
(***************************************************************************)
MaxImports == 2

\* the import statements of the documents, as their lines: one on one line,
\* one in parentheses over three lines
ImportSys == << <<"i", "m", "p", "o", "r", "t", " ", "s", "y", "s">> >>
ImportParen ==
    << <<"f", "r", "o", "m", " ", "a", " ", "i", "m", "p", "o", "r", "t", " ", "(">>,
       <<" ", " ", " ", " ", "b", ",">>,
       <<")">> >>

RECURSIVE ImportBlocks(_)
ImportBlocks(n) ==
    IF n = 0 THEN {<<>>}
    ELSE ImportBlocks(n - 1) \cup
         {b \o st : b \in ImportBlocks(n - 1), st \in {ImportSys, ImportParen}}

Headers == { <<>>, << <<"#", " ", "c">> >>, << <<"#", " ", "c">>, <<>> >> }
Bodies == { <<>>, << <<"X", " ", "=", " ", "1">> >> }

ImportDocs ==
    { JoinWith(header \o block \o body, <<"\n">>) \o <<"\n">> :
        header \in Headers, block \in ImportBlocks(MaxImports), body \in Bodies }

Os == <<"o", "s">>
OsPath == <<"o", "s", ".", "p", "a", "t", "h">>

\* add_library_import("os"), ("os", import_as="o"),
\* ("os", import_from="os", import_what="path"),
\* ("os", import_from="os.path", import_what=["join", "sep"]) and
\* ("os", import_from="os.path")
ImportCalls ==
    { ImportArgs(Os, <<>>, <<>>, PyNone),
      ImportArgs(Os, <<>>, <<"o">>, PyNone),
      ImportArgs(Os, Os, <<>>, Str(<<"p", "a", "t", "h">>)),
      ImportArgs(Os, OsPath, <<>>,
                 List(<<Str(<<"j", "o", "i", "n">>), Str(<<"s", "e", "p">>)>>)),
      ImportArgs(Os, OsPath, <<>>, PyNone) }

ImportInit ==
    /\ settings_text \in ImportDocs
    /\ before = <<>>
    /\ call = NoCall
    /\ repeated = FALSE
    /\ ncalls = 0
    /\ middleware = <<>>
    /\ race = NoRace
    /\ fs = OneFile
    /\ result = NoResult
    /\ selector = NoSelector
    /\ install = NoInstall
    /\ flow = NoFlow

\* one call of add_library_import; `repeated` tells that the call before it
\* was the same call and returned success
AddLibraryImport ==
    /\ ncalls < MaxCalls
    /\ \E a \in ImportCalls :
          LET r == add_library_import(settings_text, a)
          IN  /\ settings_text' = IF r.written THEN r.new_content ELSE settings_text
              /\ before' = settings_text
              /\ call' = [op |-> "add_library_import", name |-> a.library_name,
                          value |-> a, ok |-> r.ok, message |-> r.message,
                          written |-> r.written]
              /\ repeated' = (call.op = "add_library_import" /\ call.value = a /\ call.ok)
    /\ ncalls' = ncalls + 1
    /\ UNCHANGED <<middleware, race, fs,
                 result, selector, install, flow>>

ImportNext == AddLibraryImport

ImportSpec == ImportInit /\ [][ImportNext]_vars

\* the line begins an import statement
StartsImport(line) ==
    \/ IsPrefix(Import \o <<" ">>, Strip(line))
    \/ IsPrefix(FromKw \o <<" ">>, Strip(line))

HasChar(line, ch) == \E i \in 1..Len(line) : line[i] = ch

\* line i belongs to an import statement: it begins one, or it follows the
\* line that opened the parenthesis of one that is not closed yet
InImportStatement(lines, i) ==
    \/ StartsImport(lines[i])
    \/ \E j \in 1..(i - 1) :
          /\ StartsImport(lines[j]) /\ HasChar(lines[j], "(")
          /\ \A k \in j..(i - 1) : ~HasChar(lines[k], ")")

\* the first line that is neither blank, nor a comment, nor an import
\* statement; 0 when there is none
FirstCodeLine(lines) ==
    LET I == {i \in 1..Len(lines) :
                /\ Strip(lines[i]) # <<>>
                /\ ~IsPrefix(<<"#">>, Strip(lines[i]))
                /\ ~InImportStatement(lines, i)}
    IN  IF I = {} THEN 0 ELSE Min(I)

\* C19: when the library is not yet imported, add_library_import inserts the
\* import statement as a new line immediately before the first line that is
\* neither blank, nor a comment, nor an import statement, and all original
\* lines are kept unchanged and in their original order.
C19_ImportInsertedAfterImportBlock ==
    ( /\ call.op = "add_library_import" /\ call.written
      /\ FirstCodeLine(LinesBefore) # 0 )
        => LinesAfter =
              SubSeq(LinesBefore, 1, FirstCodeLine(LinesBefore) - 1)
                 \o <<import_statement(call.value)>>
                 \o From(LinesBefore, FirstCodeLine(LinesBefore))

\* C20: add_library_import is idempotent: for any library name and any import
\* form (plain, `as` alias, from/import) for which a first call returns
\* success, a second identical call reports the library as already imported,
\* writes nothing and leaves the file equal to its content after the first call.
C20_AddImportIdempotent ==
    (call.op = "add_library_import" /\ repeated)
        => ( /\ call.ok /\ call.message = call.name \o IsAlreadyImported
             /\ ~call.written /\ settings_text = before )

\* ---------------------------------------------------------------------------
\* get_raw_staticfiles_dirs (django_manager.py:607-669, and its copy in
\* static_root_handler.py:243-305)

MaxRawEntries == 2

\* the number of `open` characters minus the number of `close` characters
\* before position i: paren_level and bracket_level when the loop reaches i
Level(raw_content, i, open, close) ==
    Cardinality({k \in 1..(i - 1) : raw_content[k] = open})
        - Cardinality({k \in 1..(i - 1) : raw_content[k] = close})

\* the commas the loop splits on
SplitCommas(raw_content) ==
    {i \in 1..Len(raw_content) :
        /\ raw_content[i] = ","
        /\ Level(raw_content, i, "(", ")") = 0
        /\ Level(raw_content, i, "[", "]") = 0}

\* the stripped pieces between the split commas, the empty ones dropped
expressions(raw_content) ==
    LET cuts   == {0} \cup SplitCommas(raw_content) \cup {Len(raw_content) + 1}
        starts == cuts \ {Len(raw_content) + 1}
        Nth(n) == CHOOSE c \in starts : Cardinality({d \in starts : d < c}) = n - 1
        Piece(c) == Strip(SubSeq(raw_content, c + 1, Min({d \in cuts : d > c}) - 1))
    IN  SelectSeq([n \in 1..Cardinality(starts) |-> Piece(Nth(n))],
                  LAMBDA e : e # <<>>)

\* re.search(r"STATICFILES_DIRS\s*=\s*\[(.*?)\]", content, re.DOTALL): the
\* position after the opening bracket of the leftmost match, 0 without match
raw_dirs_open(content) ==
    LET I == {i \in 1..Len(content) :
                /\ LitAt(content, i, STATICFILES_DIRS)
                /\ LET eq == SkipSpace(content, i + Len(STATICFILES_DIRS))
                   IN  /\ LitAt(content, eq, <<"=">>)
                       /\ LET br == SkipSpace(content, eq + 1)
                          IN  /\ LitAt(content, br, <<"[">>)
                              /\ find(content, "]", br + 1) # 0}
    IN  IF I = {} THEN 0
        ELSE SkipSpace(content,
                 SkipSpace(content, Min(I) + Len(STATICFILES_DIRS)) + 1) + 1

get_raw_staticfiles_dirs(content) ==
    LET start == raw_dirs_open(content)
    IN  IF start = 0 THEN <<>>
        ELSE expressions(Strip(SubSeq(content, start,
                                      find(content, "]", start) - 1)))

\* element expressions: a string, a call with a comma between its arguments,
\* a subscript (an element with a bracket pair of its own)
RawElements ==
    { <<"'", "a", "'">>,
      <<"j", "(", "B", ",", " ", "'", "s", "'", ")">>,
      <<"D", "[", "0", "]">> }

RawEntryLists == UNION {[1..n -> RawElements] : n \in 0..MaxRawEntries}

RawLayouts(es) == {OneLine(es), Hanging(es), Vertical(es)}

RawDocsOf(es) ==
    { pre \o Assign(STATICFILES_DIRS, lit) \o post :
        pre \in {<<>>, ImportOs}, post \in {<<>>, Z1}, lit \in RawLayouts(es) }

\* documents without the setting
RawAbsentDocs == {<<>>, Z1, ImportOs \o Z1}

RawDocs == RawAbsentDocs \cup UNION {RawDocsOf(es) : es \in RawEntryLists}

RawDirsInit ==
    /\ settings_text \in RawDocs
    /\ before = <<>>
    /\ call = NoCall
    /\ repeated = FALSE
    /\ ncalls = 0
    /\ middleware = <<>>
    /\ race = NoRace
    /\ fs = OneFile
    /\ result = NoResult
    /\ selector = NoSelector
    /\ install = NoInstall
    /\ flow = NoFlow

GetRawStaticfilesDirs ==
    /\ result = NoResult
    /\ result' = [op |-> "get_raw_staticfiles_dirs",
                  value |-> get_raw_staticfiles_dirs(settings_text)]
    /\ UNCHANGED <<settings_text, before, call, repeated, ncalls, middleware,
                   race, fs, selector, install, flow>>

RawDirsNext == GetRawStaticfilesDirs

RawDirsSpec == RawDirsInit /\ [][RawDirsNext]_vars

\* C21: get_raw_staticfiles_dirs returns, in order, exactly the top-level
\* comma-separated element expressions of the STATICFILES_DIRS list literal
\* (a comma nested in parentheses or brackets never splits an element, an
\* element with a bracket pair of its own is returned whole), and [] when the
\* setting is absent or its list is empty.
C21_RawDirsAreTopLevelElements ==
    result # NoResult =>
        /\ \A es \in RawEntryLists :
              settings_text \in RawDocsOf(es) => result.value = es
        /\ settings_text \in RawAbsentDocs => result.value = <<>>

\* ---------------------------------------------------------------------------
\* OSManager.search_subfolders (os_manager/main.py:98-126, and its copy in
\* os_manager.py:396-435).  A path is a record: its name, what iterdir does on
\* it (kind "dir" lists folders, "denied" raises PermissionError, "file" raises
\* NotADirectoryError), what the validator returns for it, and its entries in
\* the order iterdir yields them.

MaxChildren == 2
MaxSearchDepth == 2

Entry(name, kind, valid, folders) ==
    [name |-> name, kind |-> kind, valid |-> valid, folders |-> folders]

\* the outcome of recursion(path, depth): the results list, and whether an
\* exception left the function
Searched(results, raised) == [results |-> results, raised |-> raised]

RECURSIVE recursion(_, _, _, _, _)
RECURSIVE iterate(_, _, _, _, _, _)

\* the body of `for folder in path.iterdir()` from the i-th entry on; at is the
\* path of `path` as a sequence of names
iterate(path, at, i, depth, max_depth, results) ==
    IF i > Len(path.folders) THEN Searched(results, FALSE)
    ELSE IF IsPrefix(<<".">>, path.name) THEN Searched(results, FALSE)
    ELSE LET folder == path.folders[i]
             found  == IF Truthy(folder.valid)
                       THEN Append(results, <<folder.name,
                                              Append(at, folder.name),
                                              folder.valid>>)
                       ELSE results
             below  == IF depth < max_depth
                       THEN recursion(folder, Append(at, folder.name),
                                      depth + 1, max_depth, found)
                       ELSE Searched(found, FALSE)
         IN  IF below.raised THEN below
             ELSE iterate(path, at, i + 1, depth, max_depth, below.results)

recursion(path, at, depth, max_depth, results) ==
    IF depth > max_depth THEN Searched(results, FALSE)
    ELSE IF path.kind = "denied" THEN Searched(results, FALSE)
    ELSE IF path.kind = "file" THEN Searched(results, TRUE)
    ELSE iterate(path, at, 1, depth, max_depth, results)

search_subfolders(search_path, max_depth) ==
    recursion(search_path, <<search_path.name>>, 1, max_depth, <<>>)

\* what a validator returns: None, or the name of what it found
ValidatorResults == {PyNone, Str(<<"d">>)}

FolderNames == {<<"a">>, <<".", "g">>}

Leaves == {Entry(<<"c">>, "dir", v, <<>>) : v \in ValidatorResults}

Children ==
    {Entry(n, k, v, <<>>) : n \in FolderNames, k \in {"dir", "file", "denied"},
                            v \in ValidatorResults}
      \cup {Entry(n, "dir", v, <<l>>) : n \in FolderNames, v \in ValidatorResults,
                                        l \in Leaves}

\* the search path: a directory, a hidden directory, the parent directory
SearchPathNames == {<<"t">>, <<".", "h">>, <<".", ".">>}

SearchPaths ==
    {Entry(n, k, PyNone, fo) :
        n \in SearchPathNames, k \in {"dir", "denied"},
        fo \in UNION {[1..c -> Children] : c \in 0..MaxChildren}}

SearchInit ==
    /\ settings_text = <<>>
    /\ before = <<>>
    /\ call = NoCall
    /\ repeated = FALSE
    /\ ncalls = 0
    /\ middleware = <<>>
    /\ race = NoRace
    /\ fs \in {p \in SearchPaths : p.kind = "denied" => p.folders = <<>>}
    /\ result = NoResult
    /\ selector = NoSelector
    /\ install = NoInstall
    /\ flow = NoFlow

SearchSubfolders ==
    /\ result = NoResult
    /\ \E max_depth \in 1..MaxSearchDepth :
          LET r == search_subfolders(fs, max_depth)
          IN  result' = [op |-> "search_subfolders", max_depth |-> max_depth,
                         raised |-> r.raised,
                         value |-> IF r.raised THEN <<>> ELSE r.results]
    /\ UNCHANGED <<settings_text, before, call, repeated, ncalls, middleware,
                   race, fs, selector, install, flow>>

SearchNext == SearchSubfolders

SearchSpec == SearchInit /\ [][SearchNext]_vars

\* the tuples of the direct children on which the validator returns a truthy
\* value, in iteration order
DirectMatches(path) ==
    LET hits == SelectSeq(path.folders, LAMBDA f : Truthy(f.valid))
    IN  [i \in 1..Len(hits) |->
            <<hits[i].name, <<path.name, hits[i].name>>, hits[i].valid>>]

\* C22: with max_depth = 1, search_subfolders returns exactly one tuple
\* (folder.name, folder, validator(folder)) for each direct child of the search
\* path on which the validator returns a truthy value, in iteration order, and
\* no tuple for a child on which it returns a falsy value.
C22_DepthOneReturnsDirectMatches ==
    (result # NoResult /\ result.max_depth = 1)
        => (~result.raised /\ result.value = DirectMatches(fs))

\* ---------------------------------------------------------------------------
\* ListSelector (widgets/list_selector.py).  A key is the character getch
\* returns; ESC stands for "\x1b" and ETX for "\x03" (Ctrl+C).

MaxOptions == 3

ESC == "ESC"
ETX == "ETX"

Digits == {"0", "1", "2", "3", "4", "5", "6", "7", "8", "9"}

\* int(key) for a digit key
int(key) == CHOOSE n \in 0..9 : ToString(n) = key

\* what select returned: nothing yet, an int, one of the options, or None
NotReturned       == [kind |-> "running", index |-> -1, option |-> ""]
ReturnedInt(n)    == [kind |-> "int", index |-> n, option |-> ""]
ReturnedOption(o) == [kind |-> "option", index |-> -1, option |-> o]
ReturnedNone      == [kind |-> "None", index |-> -1, option |-> ""]

Options == UNION {[1..n -> {"a", "b"}] : n \in 1..MaxOptions}

\* ListSelector.__init__
ListSelector(options) ==
    [options |-> options, selected_index |-> 0, selecting |-> FALSE,
     key |-> "", returned |-> NotReturned]

\* the keys tried: digits inside and outside every option range, the two
\* Enter characters, Ctrl+C, a letter, and ESC with the two characters that
\* follow it
Keys == {"0", "1", "2", "3", "4", "\r", "\n", ETX, "x", ESC}
Next1 == {"[", "O"}
Next2 == {"A", "B", "C"}

ListSelectorInit ==
    /\ settings_text = <<>>
    /\ before = <<>>
    /\ call = NoCall
    /\ repeated = FALSE
    /\ ncalls = 0
    /\ middleware = <<>>
    /\ race = NoRace
    /\ fs = OneFile
    /\ result = NoResult
    /\ selector \in {ListSelector(options) : options \in Options}
    /\ install = NoInstall
    /\ flow = NoFlow

\* a call of select() enters the loop; selected_index is what the previous
\* call left
Select ==
    /\ ~selector.selecting
    /\ selector' = [selector EXCEPT !.selecting = TRUE, !.key = "",
                                    !.returned = NotReturned]
    /\ UNCHANGED <<settings_text, before, call, repeated, ncalls, middleware,
                   race, fs, result, install, flow>>

Return(key, value) ==
    selector' = [selector EXCEPT !.selecting = FALSE, !.key = key,
                                 !.returned = value]

\* one turn of the loop of select: a key, and after ESC two more characters
PressKey ==
    /\ selector.selecting
    /\ \E key \in Keys, next1 \in Next1, next2 \in Next2 :
         LET len == Len(selector.options)
         IN  IF key \in Digits
             THEN IF 1 <= int(key) /\ int(key) <= len
                  THEN Return(key, ReturnedInt(int(key) - 1))
                  ELSE selector' = [selector EXCEPT !.key = key]
             ELSE IF key = ESC
             THEN IF next1 = "[" /\ next2 = "A"
                  THEN selector' = [selector EXCEPT !.key = key,
                          !.selected_index = (selector.selected_index - 1) % len]
                  ELSE IF next1 = "[" /\ next2 = "B"
                  THEN selector' = [selector EXCEPT !.key = key,
                          !.selected_index = (selector.selected_index + 1) % len]
                  ELSE selector' = [selector EXCEPT !.key = key]
             ELSE IF key \in {"\r", "\n"}
             THEN Return(key, ReturnedOption(selector.options[selector.selected_index + 1]))
             ELSE IF key = ETX
             THEN Return(key, ReturnedNone)
             ELSE selector' = [selector EXCEPT !.key = key]
    /\ UNCHANGED <<settings_text, before, call, repeated, ncalls, middleware,
                   race, fs, result, install, flow>>

ListSelectorNext == Select \/ PressKey

ListSelectorSpec == ListSelectorInit /\ [][ListSelectorNext]_vars

\* C23: select returns the 0-based index of the chosen option whichever way
\* the option is chosen (Enter on the highlighted option after any sequence of
\* up/down keys, or a digit key), and None on Ctrl+C.
C23_SelectReturnsIndex ==
    (selector # NoSelector /\ selector.returned # NotReturned) =>
        /\ selector.key \in Digits =>
              selector.returned = ReturnedInt(int(selector.key) - 1)
        /\ selector.key \in {"\r", "\n"} =>
              selector.returned = ReturnedInt(selector.selected_index)
        /\ selector.key = ETX => selector.returned = ReturnedNone

(***************************************************************************)
(* The strategy chain of edit_settings.                                    *)
(***************************************************************************)
\* the line holds a dict entry for name and is no assignment to name, active
\* or commented out
IsDictEntryLine(line, name) ==
    /\ re_search("dict", line, name).start # 0
    /\ ~IsAssignmentLine(line, name)
    /\ ~IsCommentedLine(line, name)

\* the content read holds both an assignment to the name and a dict entry
AssignmentAndDictEntry ==
    /\ call.op = "edit_settings"
    /\ \E l \in 1..Len(LinesBefore) : IsAssignmentLine(LinesBefore[l], call.name)
    /\ \E l \in 1..Len(LinesBefore) : IsDictEntryLine(LinesBefore[l], call.name)

\* C24: the strategies of edit_settings are tried in the order simple
\* assignment, dict entry, commented assignment, append, and one branch is
\* applied: when the document holds both an assignment `X = a` and a dict
\* entry `'X': b`, the assignment is rewritten and the dict entry stays
\* byte-identical; the append branch runs only when none of the three
\* patterns matches.
C24_FirstStrategyWins ==
    /\ AssignmentAndDictEntry =>
          \A l \in 1..Len(LinesBefore) :
             /\ IsDictEntryLine(LinesBefore[l], call.name) => LineKept(l)
             /\ IsAssignmentLine(LinesBefore[l], call.name)
                => /\ l <= Len(LinesAfter)
                   /\ IsPrefix(call.name \o <<" ", "=", " ">> \o value_str(call.value),
                               LinesAfter[l])
    /\ (call.op = "edit_settings" /\ AppendedToFile)
          => /\ re_search("simple", before, call.name).start = 0
             /\ re_search("dict", before, call.name).start = 0
             /\ re_search("commented", before, call.name).start = 0
    /\ (call.op = "edit_settings" /\ ~AppendedToFile)
          => \/ re_search("simple", before, call.name).start # 0
             \/ re_search("dict", before, call.name).start # 0
             \/ re_search("commented", before, call.name).start # 0

\* ---------------------------------------------------------------------------
\* is_library_imported as a query (django_manager.py:495-530)

MaxStatements == 2

Sys == <<"s", "y", "s">>

\* the four forms of an import statement for os, and the two for sys
ImportsOfOs ==
    { <<"i", "m", "p", "o", "r", "t", " ", "o", "s">>,
      <<"i", "m", "p", "o", "r", "t", " ", "o", "s", " ", "a", "s", " ", "o">>,
      <<"f", "r", "o", "m", " ", "o", "s", " ", "i", "m", "p", "o", "r", "t", " ", "p", "a", "t", "h">>,
      <<"i", "m", "p", "o", "r", "t", " ", "s", "y", "s", ",", " ", "o", "s">> }

ImportsOfSys ==
    { <<"i", "m", "p", "o", "r", "t", " ", "s", "y", "s">>,
      <<"i", "m", "p", "o", "r", "t", " ", "s", "y", "s", ",", " ", "o", "s">> }

\* an import of a module whose name begins with os, the same in the from
\* form, a comment that mentions the import, and a line of code
OtherLines ==
    { <<"i", "m", "p", "o", "r", "t", " ", "o", "s", "x">>,
      <<"f", "r", "o", "m", " ", "o", "s", "x", " ", "i", "m", "p", "o", "r", "t", " ", "a">>,
      <<"#", " ", "i", "m", "p", "o", "r", "t", " ", "o", "s">>,
      <<"X", " ", "=", " ", "1">> }

StatementLines == ImportsOfOs \cup ImportsOfSys \cup OtherLines

\* files of 1..MaxStatements lines
StatementDocs ==
    UNION {{JoinWith(ls, <<"\n">>) \o <<"\n">> : ls \in [1..n -> StatementLines]} :
              n \in 1..MaxStatements}

IsImportedInit ==
    /\ settings_text \in StatementDocs
    /\ before = <<>>
    /\ call = NoCall
    /\ repeated = FALSE
    /\ ncalls = 0
    /\ middleware = <<>>
    /\ race = NoRace
    /\ fs = OneFile
    /\ result = NoResult
    /\ selector = NoSelector
    /\ install = NoInstall
    /\ flow = NoFlow

IsLibraryImported ==
    /\ result = NoResult
    /\ \E library_name \in {Os, Sys} :
          result' = [op |-> "is_library_imported", library_name |-> library_name,
                     value |-> is_library_imported(settings_text, library_name)]
    /\ UNCHANGED <<settings_text, before, call, repeated, ncalls, middleware,
                   race, fs, selector, install, flow>>

IsImportedNext == IsLibraryImported

IsImportedSpec == IsImportedInit /\ [][IsImportedNext]_vars

ImportsOf(library_name) == IF library_name = Os THEN ImportsOfOs ELSE ImportsOfSys

\* the file holds an import statement for the library itself
HasImportOf(content, library_name) ==
    \E l \in 1..Len(SplitLines(content)) :
        SplitLines(content)[l] \in ImportsOf(library_name)

\* C25: is_library_imported(lib) returns True if and only if the document
\* holds an import statement for the module lib itself in one of the four
\* forms (plain, from-import, multi-name, aliased); a document that only
\* imports a different module whose name begins with lib, or that mentions the
\* import only inside a comment, yields False.
C25_ImportedIffImportStatement ==
    result # NoResult =>
        (result.value <=> HasImportOf(settings_text, result.library_name))

\* ---------------------------------------------------------------------------
\* find_in_settings (django_manager.py:125-176): the settings file is executed
\* as a module and the attribute is read from it.  The statements the files of
\* the model are made of are executed here: comments, `import os`, and
\* assignments of a string, a number, os.path.join(BASE_DIR, '...') or a list
\* of these.  Anything else fails as it does in Python (a SyntaxError, an
\* IndentationError or a NameError), and the default is returned.

\* the text of each middleware name in the file
MiddlewareText(name) ==
    CASE name = "django.middleware.security.SecurityMiddleware" ->
            <<"d", "j", "a", "n", "g", "o", ".", "m", "i", "d", "d", "l",
              "e", "w", "a", "r", "e", ".", "s", "e", "c", "u", "r", "i",
              "t", "y", ".", "S", "e", "c", "u", "r", "i", "t", "y", "M",
              "i", "d", "d", "l", "e", "w", "a", "r", "e">>
      [] name = "whitenoise.middleware.WhiteNoiseMiddleware" ->
            <<"w", "h", "i", "t", "e", "n", "o", "i", "s", "e", ".", "m",
              "i", "d", "d", "l", "e", "w", "a", "r", "e", ".", "W", "h",
              "i", "t", "e", "N", "o", "i", "s", "e", "M", "i", "d", "d",
              "l", "e", "w", "a", "r", "e">>
      [] name = "django.contrib.sessions.middleware.SessionMiddleware" ->
            <<"d", "j", "a", "n", "g", "o", ".", "c", "o", "n", "t", "r",
              "i", "b", ".", "s", "e", "s", "s", "i", "o", "n", "s", ".",
              "m", "i", "d", "d", "l", "e", "w", "a", "r", "e", ".", "S",
              "e", "s", "s", "i", "o", "n", "M", "i", "d", "d", "l", "e",
              "w", "a", "r", "e">>
      [] name = "django.middleware.common.CommonMiddleware" ->
            <<"d", "j", "a", "n", "g", "o", ".", "m", "i", "d", "d", "l",
              "e", "w", "a", "r", "e", ".", "c", "o", "m", "m", "o", "n",
              ".", "C", "o", "m", "m", "o", "n", "M", "i", "d", "d", "l",
              "e", "w", "a", "r", "e">>
      [] name = "django.middleware.csrf.CsrfViewMiddleware" ->
            <<"d", "j", "a", "n", "g", "o", ".", "m", "i", "d", "d", "l",
              "e", "w", "a", "r", "e", ".", "c", "s", "r", "f", ".", "C",
              "s", "r", "f", "V", "i", "e", "w", "M", "i", "d", "d", "l",
              "e", "w", "a", "r", "e">>
      [] name = "django.contrib.auth.middleware.AuthenticationMiddleware" ->
            <<"d", "j", "a", "n", "g", "o", ".", "c", "o", "n", "t", "r",
              "i", "b", ".", "a", "u", "t", "h", ".", "m", "i", "d", "d",
              "l", "e", "w", "a", "r", "e", ".", "A", "u", "t", "h", "e",
              "n", "t", "i", "c", "a", "t", "i", "o", "n", "M", "i", "d",
              "d", "l", "e", "w", "a", "r", "e">>
      [] name = "django.contrib.messages.middleware.MessageMiddleware" ->
            <<"d", "j", "a", "n", "g", "o", ".", "c", "o", "n", "t", "r",
              "i", "b", ".", "m", "e", "s", "s", "a", "g", "e", "s", ".",
              "m", "i", "d", "d", "l", "e", "w", "a", "r", "e", ".", "M",
              "e", "s", "s", "a", "g", "e", "M", "i", "d", "d", "l", "e",
              "w", "a", "r", "e">>
      [] name = "django.middleware.clickjacking.XFrameOptionsMiddleware" ->
            <<"d", "j", "a", "n", "g", "o", ".", "m", "i", "d", "d", "l",
              "e", "w", "a", "r", "e", ".", "c", "l", "i", "c", "k", "j",
              "a", "c", "k", "i", "n", "g", ".", "X", "F", "r", "a", "m",
              "e", "O", "p", "t", "i", "o", "n", "s", "M", "i", "d", "d",
              "l", "e", "w", "a", "r", "e">>

\* the names setup_whitenoise_middleware can put in a list
KnownMiddlewares == {BasicMiddlewares[i] : i \in 1..Len(BasicMiddlewares)}

MiddlewareNamed(chars) == CHOOSE name \in KnownMiddlewares : MiddlewareText(name) = chars

\* nesting depth of brackets and parentheses after position i
Depth(content, i) ==
    Cardinality({k \in 1..i : content[k] \in {"[", "("}})
        - Cardinality({k \in 1..i : content[k] \in {"]", ")"}})

\* the statements of the module: the text between the newlines that stand
\* outside every bracket
Statements(content) ==
    LET ends   == {i \in 1..Len(content) : content[i] = "\n" /\ Depth(content, i) = 0}
        cuts   == {0} \cup ends \cup {Len(content) + 1}
        starts == cuts \ {Len(content) + 1}
        Nth(n) == CHOOSE c \in starts : Cardinality({d \in starts : d < c}) = n - 1
    IN  [n \in 1..Cardinality(starts) |->
            SubSeq(content, Nth(n) + 1, Min({d \in cuts : d > Nth(n)}) - 1)]

BASE_DIR == <<"B", "A", "S", "E", "_", "D", "I", "R">>

JoinCall == <<"o", "s", ".", "p", "a", "t", "h", ".", "j", "o", "i", "n", "(">> \o BASE_DIR \o <<",">>

IsStringLiteral(e) ==
    /\ Len(e) >= 2 /\ e[1] = "'" /\ e[Len(e)] = "'"
    /\ \A k \in 2..(Len(e) - 1) : e[k] # "'"

IsNumber(e) == e # <<>> /\ \A k \in 1..Len(e) : e[k] \in Digits

\* os.path.join(BASE_DIR, '<string>')
IsJoinCall(e) ==
    /\ IsPrefix(JoinCall, e) /\ e[Len(e)] = ")"
    /\ IsStringLiteral(Strip(SubSeq(e, Len(JoinCall) + 1, Len(e) - 1)))

IsScalar(e) == IsStringLiteral(e) \/ IsNumber(e) \/ IsJoinCall(e)

IsListLiteral(e) ==
    /\ Len(e) >= 2 /\ e[1] = "[" /\ e[Len(e)] = "]"
    /\ \A k \in 2..(Len(e) - 1) : e[k] \notin {"[", "]"}
    /\ LET items == expressions(Strip(SubSeq(e, 2, Len(e) - 1)))
       IN  \A k \in 1..Len(items) : IsScalar(items[k])

IsExpression(e) == IsScalar(e) \/ IsListLiteral(e)

NameChars == {"A", "B", "C", "D", "E", "F", "G", "H", "I", "J", "K", "L", "M", "N",
              "O", "P", "Q", "R", "S", "T", "U", "V", "W", "X", "Y", "Z", "_"}

\* the end of the name a statement begins with
TargetEnd(st) ==
    CHOOSE j \in 1..(Len(st) + 1) :
        /\ \A k \in 1..(j - 1) : st[k] \in NameChars
        /\ (j = Len(st) + 1 \/ st[j] \notin NameChars)

\* the statement without its trailing comment
Code(st) == IF find(st, "#", 1) = 0 THEN st ELSE SubSeq(st, 1, find(st, "#", 1) - 1)

Target(st) == SubSeq(st, 1, TargetEnd(st) - 1)
Expression(st) == Strip(From(Code(st), SkipSpace(st, TargetEnd(st)) + 1))

\* NAME = expression
IsAssignment(st) ==
    /\ TargetEnd(st) > 1
    /\ LitAt(st, SkipSpace(st, TargetEnd(st)), <<"=">>)
    /\ IsExpression(Expression(st))

IsImportOs(st) ==
    Strip(Code(st)) = <<"i", "m", "p", "o", "r", "t", " ", "o", "s">> /\ st[1] = "i"

IsBlankOrComment(st) == Strip(st) = <<>> \/ Strip(st)[1] = "#"

\* the statement uses os and BASE_DIR
UsesJoin(st) == Occurrences(st, JoinCall) # {}

\* the module compiles: brackets are balanced and every statement is one
\* Python accepts (a statement that begins with a blank is not)
Compiles(content) ==
    /\ \A i \in 1..Len(content) : Depth(content, i) >= 0
    /\ Depth(content, Len(content)) = 0
    /\ \A n \in 1..Len(Statements(content)) :
          LET st == Statements(content)[n]
          IN  IsBlankOrComment(st) \/ IsImportOs(st) \/ IsAssignment(st)

\* the module runs to its end: every name a statement uses is bound by an
\* earlier statement
Executes(content) ==
    /\ Compiles(content)
    /\ LET sts == Statements(content)
       IN  \A n \in 1..Len(sts) :
              (IsAssignment(sts[n]) /\ UsesJoin(sts[n]))
              => /\ \E m \in 1..(n - 1) : IsImportOs(sts[m])
                 /\ \E m \in 1..(n - 1) :
                       IsAssignment(sts[m]) /\ Target(sts[m]) = BASE_DIR

\* the value of a scalar expression; the value of os.path.join(BASE_DIR, 's')
\* is written with the name BASE_DIR standing for its value
ScalarValue(e) ==
    IF IsStringLiteral(e) THEN Str(SubSeq(e, 2, Len(e) - 1))
    ELSE IF IsNumber(e) THEN PyInt(e)
    ELSE LET arg == Strip(SubSeq(e, Len(JoinCall) + 1, Len(e) - 1))
         IN  Str(BASE_DIR \o <<"/">> \o SubSeq(arg, 2, Len(arg) - 1))

ExpressionValue(e) ==
    IF IsListLiteral(e)
    THEN LET items == expressions(Strip(SubSeq(e, 2, Len(e) - 1)))
         IN  List([k \in 1..Len(items) |-> ScalarValue(items[k])])
    ELSE ScalarValue(e)

find_in_settings(content, setting_name, default_value) ==
    IF ~Executes(content) THEN default_value
    ELSE LET sts == Statements(content)
             A   == {n \in 1..Len(sts) :
                        IsAssignment(sts[n]) /\ Target(sts[n]) = setting_name}
         IN  IF A = {} THEN default_value
             ELSE ExpressionValue(Expression(sts[Max(A)]))

\* ---------------------------------------------------------------------------
\* The Whitenoise flow: StaticRootHandler._handle_whitenoise
\* (static_root_handler.py:28-118) and its copy
\* ConfigureSettingsManager._handle_whitenoise
\* (configure_settings_manager.py:192-280).  One action per setting the flow
\* configures; flow.reported lists the success messages displayed so far.

STATIC_URL ==
    <<"S", "T", "A", "T", "I", "C", "_", "U", "R", "L">>

STATIC_ROOT ==
    <<"S", "T", "A", "T", "I", "C", "_", "R", "O", "O", "T">>

STATICFILES_STORAGE ==
    <<"S", "T", "A", "T", "I", "C", "F", "I", "L", "E", "S", "_", "S", "T", "O", "R", "A", "G", "E">>

static_url_value ==
    <<"/", "s", "t", "a", "t", "i", "c", "/">>

static_root_expr ==
    <<"o", "s", ".", "p", "a", "t", "h", ".", "j", "o", "i", "n", "(", "B", "A", "S", "E", "_", "D", "I", "R", ",", " ", "'", "s", "t", "a", "t", "i", "c", "f", "i", "l", "e", "s", "'", ")">>

staticfiles_storage_value ==
    <<"w", "h", "i", "t", "e", "n", "o", "i", "s", "e", ".", "s", "t", "o", "r", "a", "g", "e", ".", "C", "o", "m", "p", "r", "e", "s", "s", "e", "d", "M", "a", "n", "i", "f", "e", "s", "t", "S", "t", "a", "t", "i", "c", "F", "i", "l", "e", "s", "S", "t", "o", "r", "a", "g", "e">>

\* the MIDDLEWARE value as the list of names the two whitenoise functions work
\* on, and back; {} (the default), [] and every other false value give <<>>
MiddlewareList(value) ==
    IF value.type = "list" THEN [i \in 1..Len(value.v) |-> MiddlewareNamed(value.v[i].v)]
    ELSE <<>>

MiddlewareValue(middleware_list) ==
    List([i \in 1..Len(middleware_list) |-> Str(MiddlewareText(middleware_list[i]))])

Flow(pc, reported, wrote_join) ==
    [pc |-> pc, reported |-> reported, wrote_join |-> wrote_join]

\* the flow goes on to the next setting after displaying a success message
Proceed(pc, message, wrote_join) ==
    flow' = Flow(pc, Append(flow.reported, message), flow.wrote_join \/ wrote_join)

\* _handle_whitenoise starts: without an active virtual environment it prints
\* a message and ends
HandleWhitenoise ==
    /\ flow = NoFlow
    /\ \E active_venv \in BOOLEAN :
          flow' = Flow(IF active_venv THEN "MIDDLEWARE" ELSE "done", <<>>, FALSE)
    /\ before' = settings_text
    /\ UNCHANGED <<settings_text, call, repeated, ncalls, middleware, race, fs,
                   result, selector, install>>

ConfigureMiddleware ==
    /\ flow # NoFlow /\ flow.pc = "MIDDLEWARE"
    /\ LET found == MiddlewareList(find_in_settings(settings_text, MIDDLEWARE, Dict(<<>>)))
       IN  IF ~is_whitenoise_properly_configured(found)
           THEN /\ middleware' = setup_whitenoise_middleware(found)
                /\ settings_text' =
                      edit_middleware_settings(settings_text,
                          MiddlewareValue(setup_whitenoise_middleware(found))).new_content
           ELSE /\ middleware' = found
                /\ UNCHANGED settings_text
    /\ Proceed("STATIC_URL", "success_progress_whitenoise", FALSE)
    /\ UNCHANGED <<before, call, repeated, ncalls, race, fs, result, selector, install>>

ConfigureStaticUrl ==
    /\ flow # NoFlow /\ flow.pc = "STATIC_URL"
    /\ settings_text' =
          IF find_in_settings(settings_text, STATIC_URL, PyNone) # Str(static_url_value)
          THEN edit_settings(settings_text, STATIC_URL, Str(static_url_value)).new_content
          ELSE settings_text
    /\ Proceed("STATIC_ROOT", "success_progress_static_url", FALSE)
    /\ UNCHANGED <<before, call, repeated, ncalls, middleware, race, fs, result,
                   selector, install>>

ConfigureStaticRoot ==
    /\ flow # NoFlow /\ flow.pc = "STATIC_ROOT"
    /\ LET static_root == find_in_settings(settings_text, STATIC_ROOT, PyNone)
           imported    == IF is_library_imported(settings_text, Os) THEN settings_text
                          ELSE add_library_import(settings_text, ImportOsArgs).new_content
       IN  IF Truthy(static_root)
           THEN /\ settings_text' =
                      replace_settings(imported, STATIC_ROOT, static_root_expr).new_content
                /\ Proceed("STATICFILES_DIRS", "success_progress_static_root", TRUE)
           ELSE /\ UNCHANGED settings_text
                /\ Proceed("STATICFILES_DIRS", "success_progress_static_root", FALSE)
    /\ UNCHANGED <<before, call, repeated, ncalls, middleware, race, fs, result,
                   selector, install>>

\* "os.path.join(BASE_DIR" in expr and "'static'" in expr
has_path(staticfiles_dirs) ==
    \E i \in 1..Len(staticfiles_dirs) :
        /\ Occurrences(staticfiles_dirs[i], SubSeq(JoinCall, 1, Len(JoinCall) - 1)) # {}
        /\ Occurrences(staticfiles_dirs[i], <<"'", "s", "t", "a", "t", "i", "c", "'">>) # {}

ConfigureStaticfilesDirs ==
    /\ flow # NoFlow /\ flow.pc = "STATICFILES_DIRS"
    /\ LET staticfiles_dirs == get_raw_staticfiles_dirs(settings_text)
       IN  IF staticfiles_dirs = <<>>
           THEN /\ settings_text' =
                      replace_settings(settings_text, STATICFILES_DIRS,
                                       OneLine(<<target_expr>>)).new_content
                /\ Proceed("STATICFILES_STORAGE", "success_progress_static_file_dirs_add", TRUE)
           ELSE IF ~has_path(staticfiles_dirs)
           THEN /\ settings_text' =
                      replace_settings(settings_text, STATICFILES_DIRS,
                          formatted_list(Append(staticfiles_dirs, target_expr))).new_content
                /\ Proceed("STATICFILES_STORAGE", "success_progress_static_file_dirs_add", TRUE)
           ELSE /\ UNCHANGED settings_text
                /\ Proceed("STATICFILES_STORAGE", "success_progress_static_file_dirs_add", FALSE)
    /\ UNCHANGED <<before, call, repeated, ncalls, middleware, race, fs, result,
                   selector, install>>

ConfigureStaticfilesStorage ==
    /\ flow # NoFlow /\ flow.pc = "STATICFILES_STORAGE"
    /\ settings_text' =
          IF find_in_settings(settings_text, STATICFILES_STORAGE, Str(<<>>))
                # Str(staticfiles_storage_value)
          THEN edit_settings(settings_text, STATICFILES_STORAGE,
                             Str(staticfiles_storage_value)).new_content
          ELSE settings_text
    /\ Proceed("done", "success_staticfiles_storage_add", FALSE)
    /\ UNCHANGED <<before, call, repeated, ncalls, middleware, race, fs, result,
                   selector, install>>

\* the settings files the flow starts on: BASE_DIR, with or without the import
\* of os, and each of the four settings absent or present in several forms
ImportOsForms ==
    { <<>>,
      <<"i", "m", "p", "o", "r", "t", " ", "o", "s", "\n">> }

MiddlewareForms ==
    { <<>>,
      <<"M", "I", "D", "D", "L", "E", "W", "A", "R", "E", " ", "=", " ", "[", "'", "w", "h", "i", "t", "e", "n", "o", "i", "s", "e", ".", "m", "i", "d", "d", "l", "e", "w", "a", "r", "e", ".", "W", "h", "i", "t", "e", "N", "o", "i", "s", "e", "M", "i", "d", "d", "l", "e", "w", "a", "r", "e", "'", "]", "\n">>,
      <<"M", "I", "D", "D", "L", "E", "W", "A", "R", "E", " ", "=", " ", "[", " ", " ", " ", "'", "d", "j", "a", "n", "g", "o", ".", "m", "i", "d", "d", "l", "e", "w", "a", "r", "e", ".", "s", "e", "c", "u", "r", "i", "t", "y", ".", "S", "e", "c", "u", "r", "i", "t", "y", "M", "i", "d", "d", "l", "e", "w", "a", "r", "e", "'", ",", "\n", " ", " ", " ", " ", "'", "w", "h", "i", "t", "e", "n", "o", "i", "s", "e", ".", "m", "i", "d", "d", "l", "e", "w", "a", "r", "e", ".", "W", "h", "i", "t", "e", "N", "o", "i", "s", "e", "M", "i", "d", "d", "l", "e", "w", "a", "r", "e", "'", "]", "\n">> }

StaticUrlForms ==
    { <<>>,
      <<"S", "T", "A", "T", "I", "C", "_", "U", "R", "L", " ", "=", " ", "'", "/", "s", "/", "'", "\n">>,
      <<"S", "T", "A", "T", "I", "C", "_", "U", "R", "L", " ", "=", " ", "'", "/", "s", "t", "a", "t", "i", "c", "/", "'", "\n">> }

StaticRootForms ==
    { <<>>,
      <<"S", "T", "A", "T", "I", "C", "_", "R", "O", "O", "T", " ", "=", " ", "'", "'", "\n">>,
      <<"S", "T", "A", "T", "I", "C", "_", "R", "O", "O", "T", " ", "=", " ", "'", "r", "'", "\n">> }

StaticfilesDirsForms ==
    { <<>>,
      <<"S", "T", "A", "T", "I", "C", "F", "I", "L", "E", "S", "_", "D", "I", "R", "S", " ", "=", " ", "[", "]", "\n">>,
      <<"S", "T", "A", "T", "I", "C", "F", "I", "L", "E", "S", "_", "D", "I", "R", "S", " ", "=", " ", "[", "'", "a", "'", "]", "\n">>,
      <<"S", "T", "A", "T", "I", "C", "F", "I", "L", "E", "S", "_", "D", "I", "R", "S", " ", "=", " ", "[", "\n", " ", " ", " ", " ", "'", "a", "'", ",", "\n", "]", "\n">> }

FlowDocs ==
    { i \o (BASE_DIR \o <<" ", "=", " ", "'", "b", "'", "\n">>) \o m \o u \o r \o d :
        i \in ImportOsForms, m \in MiddlewareForms, u \in StaticUrlForms,
        r \in StaticRootForms, d \in StaticfilesDirsForms }

FlowInit ==
    /\ settings_text \in FlowDocs
    /\ before = <<>>
    /\ call = NoCall
    /\ repeated = FALSE
    /\ ncalls = 0
    /\ middleware = <<>>
    /\ race = NoRace
    /\ fs = OneFile
    /\ result = NoResult
    /\ selector = NoSelector
    /\ install = NoInstall
    /\ flow = NoFlow

FlowNext ==
    \/ HandleWhitenoise
    \/ ConfigureMiddleware
    \/ ConfigureStaticUrl
    \/ ConfigureStaticRoot
    \/ ConfigureStaticfilesDirs
    \/ ConfigureStaticfilesStorage

FlowSpec == FlowInit /\ [][FlowNext]_vars

FlowDone == flow # NoFlow /\ flow.pc = "done"

\* C26: whenever the flow writes a setting whose value uses os.path.join
\* (STATIC_ROOT or STATICFILES_DIRS), the settings file holds an import of os
\* when the flow ends, for every starting document.
C26_JoinWrittenImpliesOsImported ==
    (FlowDone /\ flow.wrote_join) => HasImportOf(settings_text, Os)

\* the flow has displayed the STATIC_ROOT success message
StaticRootReported ==
    flow # NoFlow /\ In("success_progress_static_root", flow.reported)

\* C27: when the flow runs with an active virtual environment on a settings
\* file in which STATIC_ROOT is absent or empty, the file holds
\* `STATIC_ROOT = os.path.join(BASE_DIR, 'staticfiles')` by the time the flow
\* reports STATIC_ROOT success.
C27_StaticRootWrittenBeforeSuccess ==
    (StaticRootReported /\ ~Truthy(find_in_settings(before, STATIC_ROOT, PyNone)))
        => In(Assign(STATIC_ROOT, static_root_expr)
                 , [l \in 1..Len(SplitLines(settings_text)) |->
                        SplitLines(settings_text)[l] \o <<"\n">>])

\* ---------------------------------------------------------------------------
\* ConfigureSettingsManager.edit_allowed_hosts
\* (configure_settings_manager.py:94-134): reads ALLOWED_HOSTS with
\* find_in_settings, adds or removes the requested hosts and writes the new
\* list with edit_settings.

MaxHosts == 2
MaxHostCalls == 2

ALLOWED_HOSTS ==
    <<"A", "L", "L", "O", "W", "E", "D", "_", "H", "O", "S", "T", "S">>

\* a string such as '*' becomes a one-element list, None the empty list
current_hosts_of(found) ==
    IF found.type = "str" THEN <<found>>
    ELSE IF found.type = "none" THEN <<>>
    ELSE found.v

hosts_to_process_of(host) == IF host.type = "str" THEN <<host>> ELSE host.v

\* the loop of the 'add' branch: membership is tested in current_hosts, the
\* list read from the file, while the hosts are appended to its copy
RECURSIVE add_hosts(_, _, _)
add_hosts(current_hosts, updated_hosts, hosts_to_process) ==
    IF hosts_to_process = <<>> THEN updated_hosts
    ELSE add_hosts(current_hosts,
                   IF In(Head(hosts_to_process), current_hosts) THEN updated_hosts
                   ELSE Append(updated_hosts, Head(hosts_to_process)),
                   Tail(hosts_to_process))

\* [h for h in current_hosts if h not in hosts_to_process]
RECURSIVE remove_hosts(_, _)
remove_hosts(current_hosts, hosts_to_process) ==
    IF current_hosts = <<>> THEN <<>>
    ELSE (IF In(Head(current_hosts), hosts_to_process) THEN <<>>
          ELSE <<Head(current_hosts)>>)
         \o remove_hosts(Tail(current_hosts), hosts_to_process)

\* the list to write
updated_hosts_of(current_hosts, hosts_to_process, operation) ==
    IF operation = "add" THEN add_hosts(current_hosts, current_hosts, hosts_to_process)
    ELSE remove_hosts(current_hosts, hosts_to_process)

\* what the call returns and the content of the file after it; an operation
\* other than 'add' and 'remove' returns before anything is written
ReturnedHosts(content, operation, current_hosts, updated_hosts, outcome) ==
    IF operation \notin {"add", "remove"}
    THEN [success |-> <<FALSE>>, current_hosts |-> current_hosts, hosts |-> current_hosts,
          new_content |-> content]
    ELSE [success |-> <<outcome.ok, outcome.message>>, current_hosts |-> current_hosts,
          hosts |-> updated_hosts, new_content |-> outcome.new_content]

edit_allowed_hosts(content, host, operation) ==
    LET current_hosts == current_hosts_of(find_in_settings(content, ALLOWED_HOSTS, List(<<>>)))
        updated_hosts == updated_hosts_of(current_hosts, hosts_to_process_of(host), operation)
    IN  ReturnedHosts(content, operation, current_hosts, updated_hosts,
                      edit_settings(content, ALLOWED_HOSTS, List(updated_hosts)))

Hosts == {Str(<<c>>) : c \in {"a", "b"}}

HostLists == UNION {[1..n -> Hosts] : n \in 0..MaxHosts}

\* the host argument: one host string or a list of hosts
HostArgs == Hosts \cup {List(l) : l \in HostLists}

Operations == {"add", "remove", "clear"}

\* the forms of the setting in the starting document
AllowedHostsForms ==
    { <<>>,
      ALLOWED_HOSTS \o <<" ", "=", " ", "[", "]", "\n">>,
      ALLOWED_HOSTS \o <<" ", "=", " ", "'", "*", "'", "\n">>,
      ALLOWED_HOSTS \o <<" ", "=", " ", "[", "'", "a", "'", "]", "\n">>,
      ALLOWED_HOSTS \o <<" ", "=", " ", "[", "'", "a", "'", ",", " ", "'", "b", "'", "]", "\n">>,
      ALLOWED_HOSTS \o <<" ", "=", " ", "[", "'", "b", "'", ",", " ", "'", "a", "'", "]", "\n">>,
      ALLOWED_HOSTS \o <<" ", "=", " ", "[", "'", "a", "'", ",", " ", "'", "a", "'", "]", "\n">> }

AllowedHostsDocs == {p \o f : p \in {<<>>, Z1}, f \in AllowedHostsForms}

AllowedHostsInit ==
    /\ settings_text \in AllowedHostsDocs
    /\ before = <<>>
    /\ call = NoCall
    /\ repeated = FALSE
    /\ ncalls = 0
    /\ middleware = <<>>
    /\ race = NoRace
    /\ fs = OneFile
    /\ result = NoResult
    /\ selector = NoSelector
    /\ install = NoInstall
    /\ flow = NoFlow

EditAllowedHosts ==
    /\ ncalls < MaxHostCalls
    /\ \E host \in HostArgs, operation \in Operations :
          \E r \in {edit_allowed_hosts(settings_text, host, operation)} :
              /\ result' = [op |-> "edit_allowed_hosts", host |-> host,
                            operation |-> operation, current_hosts |-> r.current_hosts,
                            success |-> r.success, hosts |-> r.hosts]
              /\ settings_text' = r.new_content
    /\ before' = settings_text
    /\ ncalls' = ncalls + 1
    /\ UNCHANGED <<call, repeated, middleware, race, fs, selector, install, flow>>

AllowedHostsNext == EditAllowedHosts

AllowedHostsSpec == AllowedHostsInit /\ [][AllowedHostsNext]_vars

NoDuplicates(l) == \A i, j \in 1..Len(l) : l[i] = l[j] => i = j

\* C28: for operation 'add', when the current ALLOWED_HOSTS list has no
\* duplicates, edit_allowed_hosts writes a list that keeps the current hosts
\* in their order, contains every requested host and contains no host more
\* than once, for a single host string and for any list of hosts; adding a
\* host that is already present leaves the list unchanged.
C28_AddKeepsHostsUnique ==
    (result # NoResult /\ result.operation = "add" /\ NoDuplicates(result.current_hosts))
        => LET requested == hosts_to_process_of(result.host)
           IN  /\ IsPrefix(result.current_hosts, result.hosts)
               /\ \A k \in 1..Len(requested) : In(requested[k], result.hosts)
               /\ NoDuplicates(result.hosts)
               /\ (\A k \in 1..Len(requested) : In(requested[k], result.current_hosts))
                      => result.hosts = result.current_hosts
               /\ find_in_settings(settings_text, ALLOWED_HOSTS, List(<<>>)) = List(result.hosts)

\* ---------------------------------------------------------------------------
\* DatabaseManager.install_postgres (database_manager.py:99-139), a generator,
\* and its consumer ConfigureDatabaseManager._run_installation
\* (configure_database_manager.py:80-97).  The generator runs up to its next
\* yield, the loop of the consumer handles the item, and so on in turn.  What
\* the operating system answers is a choice.  The helpers of the os manager
\* catch every Exception themselves (unix.py:18-130), so the steps return
\* failures and never raise.

package_names ==
    <<"postgresql", "postgresql-contrib", "postgresql-client", "libpq-dev">>

\* the os manager DatabaseManager was constructed with: the OSManager of this
\* repository, which has no method user_exists, or one that provides it
OsManagers == {"OSManager", "with user_exists"}

Item(step_name, success, message) ==
    [step_name |-> step_name, success |-> success, message |-> message]

Installation(os_manager) ==
    [os_manager |-> os_manager, pc |-> "prompt", next |-> "packages", packages |-> 0,
     yielded |-> <<>>, displayed |-> <<>>,
     is_installed |-> "unchecked", is_running |-> "unchecked", returned |-> "none",
     handled |-> "none"]

\* the generator stops at a yield; next is where it goes on when resumed
Yield(step_name, success, message, next) ==
    install' = [install EXCEPT !.yielded = Append(@, Item(step_name, success, message)),
                               !.pc = "yielded", !.next = next]

\* _handle_installation (configure_database_manager.py:52-78) asks the user
\* whether to install; on yes it calls _run_installation
HandleInstallation ==
    /\ install # NoInstall /\ install.pc = "prompt"
    /\ \E prompt_install_database \in BOOLEAN :
          install' = IF prompt_install_database
                     THEN [install EXCEPT !.pc = "created"]
                     ELSE [install EXCEPT !.pc = "handled", !.handled = "False"]
    /\ UNCHANGED <<settings_text, before, call, repeated, ncalls, middleware, race,
                   fs, result, selector, flow>>

\* _run_installation calls install_postgres: the generator is created, none
\* of its code has run
RunInstallation ==
    /\ install # NoInstall /\ install.pc = "created"
    /\ install' = [install EXCEPT !.pc = install.next]
    /\ UNCHANGED <<settings_text, before, call, repeated, ncalls, middleware, race,
                   fs, result, selector, flow>>

\* the answers of install_package (unix.py:38-61)
InstallFailures ==
    {"Failed to update package list", "Failed to install", "Error installing package"}

\* install_postgres_packages installs one more package of package_names; the
\* first failure ends the loop, the step is yielded when the helper returns
InstallPackage ==
    /\ install # NoInstall /\ install.pc = "packages"
    /\ install.packages < Len(package_names)
    /\ LET package == package_names[install.packages + 1]
       IN  \/ /\ install.packages + 1 < Len(package_names)
              /\ install' = [install EXCEPT !.packages = @ + 1]
           \/ /\ install.packages + 1 = Len(package_names)
              /\ install' = [install EXCEPT
                    !.packages = @ + 1,
                    !.yielded = Append(@, Item("Package Installation", TRUE,
                                               "Packages installed successfully")),
                    !.pc = "yielded", !.next = "service"]
           \/ \E message \in InstallFailures :
                 Yield("Package Installation", FALSE,
                       <<"Failed to install", package, message>>, "end")
    /\ UNCHANGED <<settings_text, before, call, repeated, ncalls, middleware, race,
                   fs, result, selector, flow>>

\* configure_postgres_service: enable, then start
ConfigureService ==
    /\ install # NoInstall /\ install.pc = "service"
    /\ \/ Yield("Service Configuration", FALSE, "Failed to enable PostgreSQL service", "end")
       \/ Yield("Service Configuration", FALSE, "Failed to start PostgreSQL service", "end")
       \/ Yield("Service Configuration", TRUE, "Service configured successfully", "user")
    /\ UNCHANGED <<settings_text, before, call, repeated, ncalls, middleware, race,
                   fs, result, selector, flow>>

\* configure_postgres_user: the call of user_exists raises AttributeError on
\* the OSManager of this repository, and the helper catches it and returns a
\* failure; with the method there, the user exists, or createuser is run
ConfigureUser ==
    /\ install # NoInstall /\ install.pc = "user"
    /\ IF install.os_manager = "OSManager"
       THEN Yield("User Configuration", FALSE, "Failed to configure PostgreSQL user", "end")
       ELSE \E user_exists \in BOOLEAN, created \in BOOLEAN :
               IF user_exists \/ created
               THEN Yield("User Configuration", TRUE, "User configured successfully", "verify")
               ELSE Yield("User Configuration", FALSE, "Failed to create PostgreSQL user", "end")
    /\ UNCHANGED <<settings_text, before, call, repeated, ncalls, middleware, race,
                   fs, result, selector, flow>>

Checked(passed) == IF passed THEN "passed" ELSE "failed"

\* check_postgres_installation, then check_postgres_status if it passed
VerifyInstallation ==
    /\ install # NoInstall /\ install.pc = "verify"
    /\ \E is_installed \in BOOLEAN, is_running \in BOOLEAN :
          LET item == IF ~is_installed
                      THEN Item("Installation Verification", FALSE,
                                "PostgreSQL installation could not be verified")
                      ELSE IF ~is_running
                      THEN Item("Service Verification", FALSE,
                                "PostgreSQL service is not running")
                      ELSE Item("Installation Complete", TRUE,
                                "PostgreSQL successfully installed at")
          IN  install' = [install EXCEPT
                  !.is_installed = Checked(is_installed),
                  !.is_running = IF is_installed THEN Checked(is_running) ELSE @,
                  !.yielded = Append(@, item), !.pc = "yielded", !.next = "end"]
    /\ UNCHANGED <<settings_text, before, call, repeated, ncalls, middleware, race,
                   fs, result, selector, flow>>

\* the loop of _run_installation without its `return False`: the generator is
\* resumed after a failed step too
Consume_resuming_after_failure ==
    /\ install # NoInstall /\ install.pc = "yielded"
    /\ LET item == install.yielded[Len(install.yielded)]
       IN  install' = [install EXCEPT
               !.displayed = Append(@, <<IF item.success THEN "progress" ELSE "failure",
                                         item.step_name>>),
               !.pc = install.next]
    /\ UNCHANGED <<settings_text, before, call, repeated, ncalls, middleware, race,
                   fs, result, selector, flow>>

\* the body of the loop of _run_installation for the item just yielded: a
\* failed step is displayed and ends the call with False, and the generator is
\* not resumed
Consume ==
    /\ install # NoInstall /\ install.pc = "yielded"
    /\ LET item == install.yielded[Len(install.yielded)]
       IN  IF item.success
           THEN install' = [install EXCEPT
                    !.displayed = Append(@, <<"progress", item.step_name>>),
                    !.pc = install.next]
           ELSE install' = [install EXCEPT
                    !.displayed = Append(@, <<"failure", item.step_name>>),
                    !.pc = "returned", !.returned = "False"]
    /\ UNCHANGED <<settings_text, before, call, repeated, ncalls, middleware, race,
                   fs, result, selector, flow>>

\* the generator is resumed after its last yield and returns: the loop ends
\* and _run_installation returns True
Exhaust ==
    /\ install # NoInstall /\ install.pc = "end"
    /\ install' = [install EXCEPT !.pc = "returned", !.returned = "True"]
    /\ UNCHANGED <<settings_text, before, call, repeated, ncalls, middleware, race,
                   fs, result, selector, flow>>

\* _handle_installation after _run_installation has returned: False ends it,
\* True is followed by one more check of the installation
VerifyAfterInstallation ==
    /\ install # NoInstall /\ install.pc = "returned"
    /\ \/ /\ install.returned = "False"
          /\ install' = [install EXCEPT !.pc = "handled", !.handled = "False"]
       \/ /\ install.returned = "True"
          /\ \E is_installed \in BOOLEAN :
                install' = [install EXCEPT
                    !.pc = "handled",
                    !.handled = IF is_installed THEN "True" ELSE "False",
                    !.displayed = Append(@, IF is_installed
                                            THEN <<"success_database_installed">>
                                            ELSE <<"error_database_installed">>)]
    /\ UNCHANGED <<settings_text, before, call, repeated, ncalls, middleware, race,
                   fs, result, selector, flow>>

InstallInit ==
    /\ settings_text = <<>>
    /\ before = <<>>
    /\ call = NoCall
    /\ repeated = FALSE
    /\ ncalls = 0
    /\ middleware = <<>>
    /\ race = NoRace
    /\ fs = OneFile
    /\ result = NoResult
    /\ selector = NoSelector
    /\ install \in {Installation(os_manager) : os_manager \in OsManagers}
    /\ flow = NoFlow

InstallNext ==
    \/ HandleInstallation
    \/ RunInstallation
    \/ InstallPackage
    \/ ConfigureService
    \/ ConfigureUser
    \/ VerifyInstallation
    \/ Consume
    \/ Exhaust
    \/ VerifyAfterInstallation

InstallSpec == InstallInit /\ [][InstallNext]_vars

StepOrder == <<{"Package Installation"}, {"Service Configuration"}, {"User Configuration"},
               {"Installation Verification", "Service Verification", "Installation Complete"}>>

\* C29: install_postgres yields its steps in the fixed order Package
\* Installation, Service Configuration, User Configuration, then verification;
\* it yields at most one failed step and that step is the last item yielded;
\* 'Installation Complete' is yielded only after the three earlier steps were
\* yielded as successful and both the installation check and the
\* service-status check passed; _run_installation returns True only if no
\* yielded step failed.
C29_StepsInOrderFailureLast ==
    install # NoInstall =>
        LET yielded == install.yielded
        IN  /\ Len(yielded) <= Len(StepOrder)
            /\ \A i \in 1..Len(yielded) :
                  /\ yielded[i].step_name \in StepOrder[i]
                  /\ ~yielded[i].success => i = Len(yielded)
                  /\ yielded[i].step_name = "Installation Complete"
                        => /\ i = 4
                           /\ \A j \in 1..3 : yielded[j].success
                           /\ install.is_installed = "passed"
                           /\ install.is_running = "passed"
            /\ install.returned = "True" => \A i \in 1..Len(yielded) : yielded[i].success

\* with the OSManager of this repository the user step fails after two
\* successful steps, and _run_installation has returned False
C29_Witness ==
    /\ install # NoInstall
    /\ install.os_manager = "OSManager"
    /\ Len(install.yielded) = 3
    /\ ~install.yielded[3].success
    /\ install.returned = "False"

\* ---------------------------------------------------------------------------
\* CreateDeleteCheckboxSelector (widgets/create_delete_chekbox_selector.py).
\* The widget keeps cursor_index, selected_indices and button_index from one
\* call of select to the next.  selector.key is the last key read and
\* selector.previous what the key found.

MaxCheckboxOptions == 3

OptionNames == <<"a", "b", "c", "d", "e">>

CheckboxOptions ==
    {SubSeq(OptionNames, 1, n) : n \in 1..Min({MaxCheckboxOptions, Len(OptionNames)})}

ACTION_CREATE == "create"
ACTION_DELETE == "delete"
ACTION_SELECT == "select"
ACTION_CANCEL == "cancel"
ACTION_DONE == "done"

\* what select returned: (action, selection), the selection a list, None or True
Running == [action |-> "", kind |-> "running", items |-> <<>>]
ReturnedList(action, items) == [action |-> action, kind |-> "list", items |-> items]
ReturnedCreate(kind) == [action |-> ACTION_CREATE, kind |-> kind, items |-> <<>>]
ReturnedCancel == [action |-> ACTION_CANCEL, kind |-> "None", items |-> <<>>]

Focus(button_index, selected_indices) ==
    [button_index |-> button_index, selected_indices |-> selected_indices]

\* CreateDeleteCheckboxSelector.__init__
CreateDeleteCheckboxSelector(options) ==
    [options |-> options, cursor_index |-> 0, selected_indices |-> {},
     button_index |-> -1, selecting |-> FALSE, key |-> "",
     previous |-> Focus(-1, {}), returned |-> Running]

\* [self.options[i] for i in self.selected_indices]: the items in the order
\* the set is iterated in, which the language does not fix
Selections(options, selected_indices) ==
    {[k \in 1..Cardinality(selected_indices) |-> options[order[k] + 1]] :
        order \in {o \in [1..Cardinality(selected_indices) -> selected_indices] :
                      \A i, j \in 1..Cardinality(selected_indices) : o[i] = o[j] => i = j}}

\* the selected items, or the highlighted item when nothing is selected
SelectedOrCurrent(s) ==
    IF s.selected_indices = {} THEN {<<s.options[s.cursor_index + 1]>>}
    ELSE Selections(s.options, s.selected_indices)

\* Space on the list adds the index of the cursor to the set one position
\* further down
toggle_below_cursor(selected_indices, cursor_index) ==
    IF cursor_index + 1 \in selected_indices THEN selected_indices \ {cursor_index + 1}
    ELSE selected_indices \cup {cursor_index + 1}

\* Space on the list
toggle(selected_indices, cursor_index) ==
    IF cursor_index \in selected_indices THEN selected_indices \ {cursor_index}
    ELSE selected_indices \cup {cursor_index}

\* the arrow keys, ESC [ A to ESC [ D; other sequences change nothing
arrow(s, next1, next2) ==
    LET len == Len(s.options)
    IN  IF next1 # "[" THEN s
        ELSE CASE next2 = "A" ->
                    IF s.button_index # -1 THEN [s EXCEPT !.button_index = -1]
                    ELSE [s EXCEPT !.cursor_index = (s.cursor_index - 1) % len]
               [] next2 = "B" ->
                    IF s.button_index # -1 THEN s
                    ELSE IF s.cursor_index = len - 1 THEN [s EXCEPT !.button_index = 0]
                    ELSE [s EXCEPT !.cursor_index = (s.cursor_index + 1) % len]
               [] next2 = "C" ->
                    IF s.button_index \in {0, 1} THEN [s EXCEPT !.button_index = @ + 1]
                    ELSE s
               [] next2 = "D" ->
                    IF s.button_index \in {1, 2} THEN [s EXCEPT !.button_index = @ - 1]
                    ELSE s
               [] OTHER -> s

select_all(s) ==
    IF Cardinality(s.selected_indices) = Len(s.options)
    THEN [s EXCEPT !.selected_indices = {}]
    ELSE [s EXCEPT !.selected_indices = 0..(Len(s.options) - 1)]

tab(s) ==
    [s EXCEPT !.button_index = IF @ = 2 THEN -1 ELSE @ + 1]

\* the keys tried, and the two characters read after ESC
CheckboxKeys == {"d", "D", "c", "s", ESC, " ", "a", "A", "\t", "\r", "\n", ETX, "x"}
CheckboxNext1 == {"[", "O"}
CheckboxNext2 == {"A", "B", "C", "D", "H"}

CheckboxInit ==
    /\ settings_text = <<>>
    /\ before = <<>>
    /\ call = NoCall
    /\ repeated = FALSE
    /\ ncalls = 0
    /\ middleware = <<>>
    /\ race = NoRace
    /\ fs = OneFile
    /\ result = NoResult
    /\ selector \in {CreateDeleteCheckboxSelector(options) : options \in CheckboxOptions}
    /\ install = NoInstall
    /\ flow = NoFlow

\* a call of select() enters the loop with the state the previous call left
CheckboxSelect ==
    /\ ~selector.selecting
    /\ selector' = [selector EXCEPT !.selecting = TRUE, !.key = "",
                       !.previous = Focus(selector.button_index, selector.selected_indices),
                       !.returned = Running]
    /\ UNCHANGED <<settings_text, before, call, repeated, ncalls, middleware,
                   race, fs, result, install, flow>>

\* one turn of the loop of select: a key, and after ESC two more characters
CheckboxPressKey ==
    /\ selector.selecting
    /\ \E key \in CheckboxKeys, next1 \in CheckboxNext1, next2 \in CheckboxNext2 :
         LET s == [selector EXCEPT !.key = key,
                      !.previous = Focus(selector.button_index, selector.selected_indices)]
             Returning(value) == selector' = [s EXCEPT !.selecting = FALSE, !.returned = value]
         IN  IF key \in {"d", "D"}
             THEN \E items \in SelectedOrCurrent(s) : Returning(ReturnedList(ACTION_DELETE, items))
             ELSE IF key \in {"c", "C"}
             THEN Returning(ReturnedCreate("None"))
             ELSE IF key \in {"s", "S"}
             THEN \E items \in Selections(s.options, s.selected_indices) :
                     Returning(ReturnedList(ACTION_DONE, items))
             ELSE IF key = ESC
             THEN selector' = arrow(s, next1, next2)
             ELSE IF key = " " /\ s.button_index = -1
             THEN selector' = [s EXCEPT !.selected_indices = toggle(@, s.cursor_index)]
             ELSE IF key \in {"a", "A"}
             THEN selector' = select_all(s)
             ELSE IF key = "\t"
             THEN selector' = tab(s)
             ELSE IF key \in {"\r", "\n"}
             THEN CASE s.button_index = 0 ->
                         \E items \in SelectedOrCurrent(s) :
                            Returning(ReturnedList(ACTION_DELETE, items))
                    [] s.button_index = 1 -> Returning(ReturnedCreate("True"))
                    [] s.button_index = 2 ->
                         \E items \in Selections(s.options, s.selected_indices) :
                            Returning(ReturnedList(ACTION_DONE, items))
                    [] OTHER ->
                         \E items \in SelectedOrCurrent(s) :
                            Returning(ReturnedList(ACTION_SELECT, items))
             ELSE IF key = ETX
             THEN Returning(ReturnedCancel)
             ELSE selector' = s
    /\ UNCHANGED <<settings_text, before, call, repeated, ncalls, middleware,
                   race, fs, result, install, flow>>

CheckboxNext == CheckboxSelect \/ CheckboxPressKey

CheckboxSpec == CheckboxInit /\ [][CheckboxNext]_vars

\* C30: for a CreateDeleteCheckboxSelector with a non-empty option list, after
\* any sequence of key presses cursor_index is a valid option index,
\* button_index is one of -1, 0, 1, 2 and selected_indices is a subset of the
\* valid option indices; Space changes selected_indices only while the focus
\* is on the list (button_index = -1); every list returned by select holds
\* only options of the option list.
C30_CheckboxStateValid ==
    selector # NoSelector =>
        LET valid == 0..(Len(selector.options) - 1)
        IN  /\ selector.cursor_index \in valid
            /\ selector.button_index \in {-1, 0, 1, 2}
            /\ selector.selected_indices \subseteq valid
            /\ (selector.key = " " /\ selector.previous.button_index # -1)
                  => selector.selected_indices = selector.previous.selected_indices
            /\ selector.returned.kind = "list"
                  => \A k \in 1..Len(selector.returned.items) :
                        \E i \in valid : selector.returned.items[k] = selector.options[i + 1]

\* Enter on the Done button returned two selected options
C30_Witness ==
    /\ selector # NoSelector
    /\ selector.key \in {"\r", "\n"}
    /\ selector.button_index = 2
    /\ selector.returned.action = ACTION_DONE
    /\ Len(selector.returned.items) = 2

\* C11: calling edit_database_settings(D) with a D holding 'default'
\* (edit_middleware_settings(M)) twice in sequence leaves the file textually
\* equal to its content after the first call, whether the first call replaced
\* a block or appended one.
C11_BlockEditIdempotent ==
    (BlockCall /\ repeated) => settings_text = before

====
